---- MODULE Spec2Model ----
(***************************************************************************)
(* FlashMaster: the file-backed store (flashmaster-json) and the pure      *)
(* scheduler (flashmaster-core).                                           *)
(*                                                                         *)
(* JsonStore is modelled with its in-memory index, the primary file, the   *)
(* backup directories and NumProcs concurrent callers.  Every critical     *)
(* section of the RwLock and every file-system call of write_with_backup   *)
(* that changes the primary path is one atomic step.                       *)
(*                                                                         *)
(* Time: `now' is the instant clock (Utc::now, file modification times);   *)
(* it advances at every reading, so later readings are strictly larger.    *)
(* `sec' is the wall-clock second used in backup file names.               *)
(* Uuid::new_v4 is a fresh identifier: the next unused number.             *)
(* Floating point: ef is held in hundredths (1.3 = 130).                   *)
(***************************************************************************)
EXTENDS Integers, Sequences, FiniteSets, TLC

\* ---- bounds ------------------------------------------------------------
NumProcs == 2
MaxOps == 3
MaxConcOps == 2
MaxSec == 2
MaxKeep == 2
MaxRestarts == 1
MaxDecks == 2
MaxCards == 2
MaxReviews == 2
MaxVer == 1
MaxGrades == 4
MaxReps == 6
MaxInterval == 200
MaxInitReps == 3
MaxInitInterval == 7
EfGrid == 5
TicksPerHour == 2
MaxTick == 1
MaxLongGrades == 20
MaxSeqLen == 3
MaxQueueCards == 2
MaxMemCalls == 3
MaxIdxOps == 5
MaxRaceOps == 3
MaxMemOps == 3
MaxMemSeqOps == 3
MaxApiReqs == 3
MaxTuiKeys == 5
MaxLaterDays == 3
MaxLockOps == 2
MaxStatDay == 2
MaxStatReviews == 3

\* ---- program constants -------------------------------------------------
FILE_VERSION == 1
InitKeep == 1

Procs == 1..NumProcs
DeckIds == 1..MaxDecks
CardIds == 1..MaxCards
Names == {"a", "A", "b"}
Vers == 0..MaxVer
Seeds == {0, 1}

VARIABLES
    status,       \* "closed", "opening", "open", "failed": the JsonStore value
    max_backups,  \* JsonStore.max_backups
    hseed,        \* iteration order of this instance's HashMaps
    decks,        \* State.decks:   DeckId -> Deck
    cards,        \* State.cards:   CardId -> Card
    reviews,      \* State.reviews: CardId -> Seq(Review)
    created_at,   \* State.created_at
    updated_at,   \* State.updated_at
    primary,      \* the file at JsonStore.path
    backups,      \* directory -> set of backup files [name, img, mtime]
    dirs,         \* the backup directories that exist
    now,          \* instant clock
    sec,          \* the wall-clock second last read
    pc,           \* per caller: position in the running operation
    op,           \* per caller: the running operation
    snapshot,     \* per caller: the FileImage taken by save
    res,          \* per caller: result of the last finished operation
    nops,         \* operations begun (bounded by MaxOps)
    restarts,      \* interruptions so far (bounded by MaxRestarts)
    nextDeck, nextCard, nextReview,   \* fresh identifiers
    \* history variables (read by properties only)
    wpre,         \* per caller: the primary file when write_with_backup began
    overlapped,   \* two operations of this instance ran at the same time
    stopped,      \* how the store last went away: dropped (with its index)
                  \* or interrupted (with the writes then in progress)
    openedOn,     \* the arguments and the disk when open_with last began
    written,      \* snapshots written to the configured backups directory
    initImg,      \* the snapshot written by the last initialising open
    \* the scheduler
    sched_card,   \* the Card being graded
    out,          \* the Reviews emitted by apply_grade, in order
    ngrades,      \* grades applied (bounded by MaxGrades)
    ef_f32,       \* the card's ef as the f32 it is, in units of 2^-29
    sched_now,    \* Utc::now() as apply_grade last read it, in ticks
    panicked,     \* the last call of apply_grade did not return
    \* the filters
    f_cards,      \* the card slice given to filter_by_due
    f_now,        \* the reference time given to filter_by_due
    f_out,        \* wanted DueStatus -> the Vec<Card> filter_by_due returned
    \* the review queue of the front-ends
    q_cards,      \* the stored cards: CardId -> Card
    q_now,        \* Utc::now() as the front-end reads it
    q_out,        \* front-end -> the queue it built, with the request
    \* MemoryRepo
    m_decks,      \* MemoryRepo.decks: DeckId -> Deck
    m_pc,         \* per caller: position in create_deck
    m_op,         \* per caller: the name given to create_deck
    m_res,        \* per caller: results of the finished calls, in order
    m_next,       \* fresh identifier
    m_cards,      \* MemoryRepo.cards: CardId -> Card
    m_reviews,    \* MemoryRepo.reviews: CardId -> Seq(Review)
    m_lock,       \* the caller that holds cards.write() across steps, or 0
    m_calls,      \* calls begun (bounded by MaxMemOps)
    \* the HTTP handlers and the repository behind them
    a_store,      \* StoreKind of the repository: "json" or "sqlite"
    a_cards,      \* the repository's cards: CardId -> Card
    a_reviews,    \* the repository's reviews: CardId -> Seq(Review)
    a_file,       \* JsonStore: the index the primary file holds
    a_pc,         \* position of the running handler
    a_req,        \* the running request and what the handler has computed
    a_resp,       \* body of the last response
    a_log,        \* the finished requests: handler, failing call, error, status
    \* concurrent POST /review requests on the repository a_*
    c_pc,         \* per request: position in post_review
    c_req,        \* per request: the body and what the handler has computed
    c_res,        \* per request: the status it was answered with, or 0
    \* TuiApp (tui/app.rs) on the repository a_*
    t_decks,      \* decks, as load_decks left it
    t_sel,        \* sel, counted from 0
    t_queue,      \* queue
    t_idx,        \* idx, counted from 0
    t_reveal,     \* reveal
    t_in_review,  \* in_review
    t_pc,         \* "new", then "mainloop", then "returned"
    t_keys,       \* number of events handled
    t_session,    \* number of queues built
    t_hist,       \* the grade actions that found a card, oldest first
    \* stats.rs
    s_reviews,    \* the reviews given to summarize and daily_streak
    s_today,      \* the day given to daily_streak
    s_out         \* what the last call returned, <<>> before the first call

storeVars == <<status, max_backups, hseed, decks, cards, reviews, created_at,
               updated_at, primary, backups, dirs, now, sec, pc, op, snapshot,
               res, nops, restarts, nextDeck, nextCard, nextReview, wpre,
               overlapped, stopped, openedOn, written, initImg>>

schedVars == <<sched_card, out, ngrades, ef_f32, sched_now, panicked>>

filtVars == <<f_cards, f_now, f_out>>

queueVars == <<q_cards, q_now, q_out>>

memMore == <<m_cards, m_reviews, m_lock, m_calls>>

memVars == <<m_decks, m_pc, m_op, m_res, m_next, memMore>>

apiVars == <<a_store, a_cards, a_reviews, a_file, a_pc, a_req, a_resp, a_log>>

\* everything of flashmaster-core and of the front-ends
concVars == <<c_pc, c_req, c_res>>

\* the front-ends that write to a repository
tuiVars == <<t_decks, t_sel, t_queue, t_idx, t_reveal, t_in_review, t_pc,
             t_keys, t_session, t_hist>>

statVars == <<s_reviews, s_today, s_out>>

frontVars == <<apiVars, concVars, tuiVars, statVars>>

coreVars == <<schedVars, filtVars, queueVars, memVars, frontVars>>

vars == <<storeVars, coreVars>>

\* ---- files -------------------------------------------------------------
MissingFile == [kind |-> "missing"]
CorruptFile == [kind |-> "corrupt"]
ImageFile(img) == [kind |-> "image", img |-> img]
NoImage == [none |-> TRUE]
\* op.at is the instant of the operation's mutation of the index
NoOp == [kind |-> "none", id |-> 0, deck |-> 0, at |-> 0]
NoIndex == [none |-> TRUE]

\* the directory given to open_with, and path.with_extension("backups")
CfgDir == "backups"
AltDir == "flashmaster.backups"
Dirs == {CfgDir, AltDir}

EmptyMap == [x \in {} |-> 0]

\* ---- HashMap iteration -------------------------------------------------
Min(S) == CHOOSE x \in S : \A y \in S : x <= y
Max(S) == CHOOSE x \in S : \A y \in S : x >= y

RECURSIVE KeyOrder(_, _)
KeyOrder(S, seed) ==
    IF S = {} THEN <<>>
    ELSE LET k == IF seed = 0 THEN Min(S) ELSE Max(S)
         IN <<k>> \o KeyOrder(S \ {k}, seed)

Values(m, seed) ==
    LET ks == KeyOrder(DOMAIN m, seed)
    IN [i \in 1..Len(ks) |-> m[ks[i]]]

RECURSIVE Flatten(_)
Flatten(ss) == IF ss = <<>> THEN <<>> ELSE Head(ss) \o Flatten(Tail(ss))

\* ---- State::to_image / State::from_image -------------------------------
to_image(st, seed) ==
    [version    |-> FILE_VERSION,
     created_at |-> st.created_at,
     updated_at |-> st.updated_at,
     decks      |-> Values(st.decks, seed),
     cards      |-> Values(st.cards, seed),
     reviews    |-> Flatten(Values(st.reviews, seed))]

\* lines 63-70: HashMap::insert of every element by its id
InsertAll(seq) ==
    LET ids == {seq[i].id : i \in 1..Len(seq)}
        last(id) == Max({i \in 1..Len(seq) : seq[i].id = id})
    IN [id \in ids |-> seq[last(id)]]

\* variant: insert(r.card_id, vec![r]) in place of entry().or_default().push(r)
GroupReviews_m(seq) ==
    LET cs == {seq[i].card_id : i \in 1..Len(seq)}
        last(c) == Max({i \in 1..Len(seq) : seq[i].card_id = c})
    IN [c \in cs |-> <<seq[last(c)]>>]

\* lines 71-74
GroupReviews(seq) ==
    LET cs == {seq[i].card_id : i \in 1..Len(seq)}
    IN [c \in cs |-> SelectSeq(seq, LAMBDA r : r.card_id = c)]

from_image(img) ==
    [created_at |-> img.created_at,
     updated_at |-> img.updated_at,
     decks      |-> InsertAll(img.decks),
     cards      |-> InsertAll(img.cards),
     reviews    |-> GroupReviews(img.reviews)]

new_empty(t) ==
    [created_at |-> t, updated_at |-> t,
     decks |-> EmptyMap, cards |-> EmptyMap, reviews |-> EmptyMap]

State == [created_at |-> created_at, updated_at |-> updated_at,
          decks |-> decks, cards |-> cards, reviews |-> reviews]

Index(st) == [decks |-> st.decks, cards |-> st.cards, reviews |-> st.reviews]

\* ---- helpers -----------------------------------------------------------
Lower(n) == IF n = "A" THEN "a" ELSE n
eq_ignore_ascii_case(a, b) == Lower(a) = Lower(b)

Restrict(m, S) == [x \in S |-> m[x]]
Put(m, k, v) == [x \in DOMAIN m \cup {k} |-> IF x = k THEN v ELSE m[x]]

Idle == \A p \in Procs : pc[p] = "idle"
Busy(p) == pc[p] /= "idle"
\* the caller is inside write_with_backup, past its first lines
InWrite(p) == pc[p] \in {"persist", "backup", "rotate", "ret"}
IndexOf(file) == IF file.kind = "image" THEN Index(from_image(file.img))
                 ELSE NoIndex
WriteDir == IF status = "opening" THEN AltDir ELSE CfgDir
WriteKeep == IF status = "opening" THEN InitKeep ELSE max_backups

\* ---- initial state: nothing is running; the disk is what an earlier run
\* ---- or the user left: no primary file or an unreadable one, and possibly
\* ---- a backup of an earlier run
OldBackup == [name |-> -1, img |-> to_image(new_empty(0), 0), mtime |-> 0]

InitStore ==
    /\ status = "closed"
    /\ max_backups = 1
    /\ hseed = 0
    /\ decks = EmptyMap /\ cards = EmptyMap /\ reviews = EmptyMap
    /\ created_at = 0 /\ updated_at = 0
    /\ primary \in {MissingFile, CorruptFile}
    /\ \E old \in {{}, {OldBackup}} :
          /\ primary = MissingFile => old = {}
          /\ backups = [d \in Dirs |-> IF d = CfgDir THEN old ELSE {}]
          /\ dirs = IF old = {} THEN {} ELSE {CfgDir}
    /\ now = 1
    /\ sec = 0
    /\ pc = [p \in Procs |-> "idle"]
    /\ op = [p \in Procs |-> NoOp]
    /\ snapshot = [p \in Procs |-> NoImage]
    /\ res = [p \in Procs |-> "none"]
    /\ nops = 0
    /\ restarts = 0
    /\ nextDeck = 1 /\ nextCard = 1 /\ nextReview = 1
    /\ wpre = [p \in Procs |-> MissingFile]
    /\ overlapped = FALSE
    /\ stopped = [how |-> "none"]
    /\ openedOn = [keep |-> 1, primary |-> MissingFile, backups |-> {}]
    /\ written = <<>>
    /\ initImg = NoImage

\* ---- JsonStore::open_with and load_or_init -----------------------------
\* lines 99-101 and 141-158: the directories are ensured, then the primary
\* file is loaded, or an empty State is made whose image load_or_init writes
\* with write_with_backup(path, path.with_extension("backups"), 1, img).
\* variant: an unreadable file is taken for an absent one
PathExists_m(file) == file.kind = "image"

\* line 141: path.exists()
PathExists(file) == file.kind /= "missing"

\* lines 144-147: the file opens, reads as UTF-8 and parses as a FileImage
ReadsAsImage(file) == file.kind = "image"

load_or_init ==
    IF PathExists(primary) /\ ReadsAsImage(primary)
    THEN LET st == from_image(primary.img)
         IN /\ status' = "open"
            /\ decks' = st.decks /\ cards' = st.cards /\ reviews' = st.reviews
            /\ created_at' = st.created_at
            /\ updated_at' = now
            /\ UNCHANGED <<pc, snapshot, initImg>>
    ELSE IF PathExists(primary)
    THEN /\ status' = "failed"
         /\ UNCHANGED <<decks, cards, reviews, created_at, updated_at, pc,
                        snapshot, initImg>>
    ELSE LET st == new_empty(now)
         IN /\ status' = "opening"
            /\ decks' = st.decks /\ cards' = st.cards /\ reviews' = st.reviews
            /\ created_at' = now /\ updated_at' = now
            /\ snapshot' = [snapshot EXCEPT ![1] = to_image(st, hseed')]
            /\ initImg' = to_image(st, hseed')
            /\ pc' = [pc EXCEPT ![1] = "remove"]

OpenWith(keep, seed) ==
    /\ status = "closed"
    /\ hseed' = seed
    /\ max_backups' = IF keep < 1 THEN 1 ELSE keep
    /\ dirs' = dirs \cup {CfgDir}
    /\ now' = now + 1
    /\ openedOn' = [keep |-> keep, primary |-> primary,
                    backups |-> backups[CfgDir]]
    /\ overlapped' = FALSE
    /\ load_or_init
    /\ UNCHANGED coreVars
    /\ UNCHANGED <<primary, backups, sec, op, res, nops, restarts, nextDeck,
                   nextCard, nextReview, wpre, stopped, written>>

\* ---- JsonStore::save, lines 111-115: the snapshot is taken under the
\* ---- write lock
SaveSnapshot(p) ==
    /\ status = "open"
    /\ pc[p] = "save"
    /\ updated_at' = now
    /\ now' = now + 1
    /\ snapshot' = [snapshot EXCEPT
                      ![p] = to_image([State EXCEPT !.updated_at = now], hseed)]
    /\ pc' = [pc EXCEPT ![p] = "remove"]
    /\ UNCHANGED coreVars
    /\ UNCHANGED <<status, max_backups, hseed, decks, cards, reviews,
                   created_at, primary, backups, dirs, sec, op, res, nops,
                   restarts, nextDeck, nextCard, nextReview, wpre, overlapped,
                   stopped, openedOn, written, initImg>>

\* ---- write_with_backup -------------------------------------------------
\* lines 165-174: directories, serialisation, the temporary file, then
\* let _ = fs::remove_file(path)
RemovePrimary(p) ==
    /\ pc[p] = "remove"
    /\ dirs' = dirs \cup {WriteDir}
    /\ wpre' = [wpre EXCEPT ![p] = primary]
    /\ primary' = MissingFile
    /\ pc' = [pc EXCEPT ![p] = "persist"]
    /\ UNCHANGED coreVars
    /\ UNCHANGED <<status, max_backups, hseed, decks, cards, reviews,
                   created_at, updated_at, backups, now, sec, op, snapshot,
                   res, nops, restarts, nextDeck, nextCard, nextReview,
                   overlapped, stopped, openedOn, written, initImg>>

\* line 175: tmp.persist(path)
PersistPrimary(p) ==
    /\ pc[p] = "persist"
    /\ primary' = ImageFile(snapshot[p])
    /\ pc' = [pc EXCEPT ![p] = "backup"]
    /\ UNCHANGED coreVars
    /\ UNCHANGED <<status, max_backups, hseed, decks, cards, reviews,
                   created_at, updated_at, backups, dirs, now, sec, op,
                   snapshot, res, nops, restarts, nextDeck, nextCard,
                   nextReview, wpre, overlapped, stopped, openedOn,
                   written, initImg>>

\* lines 178-185: the clock is read (a second not before the last one read)
\* and the backup file named after it replaces a file of the same name
BackupFile(p, ts) == [name |-> ts, img |-> snapshot[p], mtime |-> now]

WriteBackup(p, ts) ==
    /\ pc[p] = "backup"
    /\ ts >= sec
    /\ sec' = ts
    /\ backups' = [backups EXCEPT ![WriteDir] =
                     {f \in @ : f.name /= ts} \cup {BackupFile(p, ts)}]
    /\ now' = now + 1
    /\ written' = IF WriteDir = CfgDir
                  THEN Append(written, [img |-> snapshot[p], name |-> ts])
                  ELSE written
    /\ pc' = [pc EXCEPT ![p] = "rotate"]
    /\ UNCHANGED coreVars
    /\ UNCHANGED <<status, max_backups, hseed, decks, cards, reviews,
                   created_at, updated_at, primary, dirs, op, snapshot,
                   res, nops, restarts, nextDeck, nextCard, nextReview, wpre,
                   overlapped, stopped, openedOn, initImg>>

\* lines 192-204: entries sorted by modification time, all but the last
\* `keep' are removed
\* variant: the sort is descending, so the newest entries are removed
rotate_backups_m(files, keep) ==
    {f \in files : Cardinality({g \in files : g.mtime < f.mtime}) < keep}

rotate_backups(files, keep) ==
    {f \in files : Cardinality({g \in files : g.mtime > f.mtime}) < keep}

RotateBackups(p) ==
    /\ pc[p] = "rotate"
    /\ backups' = [backups EXCEPT
                     ![WriteDir] = rotate_backups(@, WriteKeep)]
    /\ pc' = [pc EXCEPT ![p] = "ret"]
    /\ UNCHANGED coreVars
    /\ UNCHANGED <<status, max_backups, hseed, decks, cards, reviews,
                   created_at, updated_at, primary, dirs, now, sec, op,
                   snapshot, res, nops, restarts, nextDeck, nextCard,
                   nextReview, wpre, overlapped, stopped, openedOn,
                   written, initImg>>

\* line 189 and lines 102-107 (open_with) or line 125 and the operation's Ok
Return(p) ==
    /\ pc[p] = "ret"
    /\ pc' = [pc EXCEPT ![p] = "idle"]
    /\ IF status = "opening"
       THEN status' = "open" /\ UNCHANGED <<res, op>>
       ELSE /\ res' = [res EXCEPT ![p] = "ok"]
            /\ op' = [op EXCEPT ![p] = NoOp]
            /\ UNCHANGED status
    /\ UNCHANGED coreVars
    /\ UNCHANGED <<max_backups, hseed, decks, cards, reviews, created_at,
                   updated_at, primary, backups, dirs, now, sec, snapshot,
                   nops, restarts, nextDeck, nextCard, nextReview, wpre,
                   overlapped, stopped, openedOn, written, initImg>>

\* ---- the Repository operations of JsonStore ----------------------------
\* The first critical section of every mutating operation; a failed check
\* returns at once, a passed one goes on to save().
CanBegin(p) ==
    /\ status = "open"
    /\ pc[p] = "idle"

Begin(p, o, next) ==
    /\ nops' = nops + 1
    /\ op' = [op EXCEPT ![p] = [kind |-> o.kind, id |-> o.id,
                                deck |-> o.deck, at |-> now]]
    /\ pc' = [pc EXCEPT ![p] = next]
    /\ res' = [res EXCEPT ![p] = "none"]
    /\ overlapped' = (overlapped \/ \E q \in Procs \ {p} : Busy(q))

Fail(p, o, err) ==
    /\ nops' = nops + 1
    /\ op' = [op EXCEPT ![p] = NoOp]
    /\ res' = [res EXCEPT ![p] = err]
    /\ UNCHANGED <<pc, overlapped>>

\* lines 210-221
CreateDeck(p, name) ==
    /\ CanBegin(p)
    /\ nextDeck <= MaxDecks
    /\ LET o == [kind |-> "create_deck", id |-> nextDeck, deck |-> nextDeck]
       IN IF \E d \in DOMAIN decks : eq_ignore_ascii_case(decks[d].name, name)
          THEN /\ Fail(p, o, "Conflict")
               /\ UNCHANGED <<decks, nextDeck>>
          ELSE /\ decks' = Put(decks, nextDeck,
                               [id |-> nextDeck, name |-> name])
               /\ nextDeck' = nextDeck + 1
               /\ Begin(p, o, "save")
    /\ UNCHANGED coreVars
    /\ UNCHANGED <<status, max_backups, hseed, cards, reviews, created_at,
                   updated_at, primary, backups, dirs, now, sec, snapshot,
                   restarts, nextCard, nextReview, wpre, stopped, openedOn,
                   written, initImg>>

\* variant: the deck is removed, its cards and their reviews are kept
DeleteDeck_m(p, id) ==
    /\ CanBegin(p)
    /\ LET o == [kind |-> "delete_deck", id |-> id, deck |-> id]
       IN IF id \notin DOMAIN decks
          THEN /\ Fail(p, o, "NotFound")
               /\ UNCHANGED <<decks, cards, reviews>>
          ELSE /\ decks' = Restrict(decks, DOMAIN decks \ {id})
               /\ UNCHANGED <<cards, reviews>>
               /\ Begin(p, o, "save")
    /\ UNCHANGED coreVars
    /\ UNCHANGED <<status, max_backups, hseed, created_at, updated_at,
                   primary, backups, dirs, now, sec, snapshot, restarts,
                   nextDeck, nextCard, nextReview, wpre, stopped,
                   openedOn, written, initImg>>

\* lines 233-246
DeleteDeck(p, id) ==
    /\ CanBegin(p)
    /\ LET o == [kind |-> "delete_deck", id |-> id, deck |-> id]
           to_remove == {c \in DOMAIN cards : cards[c].deck_id = id}
       IN IF id \notin DOMAIN decks
          THEN /\ Fail(p, o, "NotFound")
               /\ UNCHANGED <<decks, cards, reviews>>
          ELSE /\ decks' = Restrict(decks, DOMAIN decks \ {id})
               /\ cards' = Restrict(cards, DOMAIN cards \ to_remove)
               /\ reviews' = Restrict(reviews, DOMAIN reviews \ to_remove)
               /\ Begin(p, o, "save")
    /\ UNCHANGED coreVars
    /\ UNCHANGED <<status, max_backups, hseed, created_at, updated_at,
                   primary, backups, dirs, now, sec, snapshot, restarts,
                   nextDeck, nextCard, nextReview, wpre, stopped,
                   openedOn, written, initImg>>

\* lines 256-265: the deck is looked up and the card built under the read lock
AddCard(p, deck_id) ==
    /\ CanBegin(p)
    /\ nextCard <= MaxCards
    /\ LET o == [kind |-> "add_card", id |-> nextCard, deck |-> deck_id]
       IN IF deck_id \notin DOMAIN decks
          THEN /\ Fail(p, o, "NotFound")
               /\ UNCHANGED nextCard
          ELSE /\ nextCard' = nextCard + 1
               /\ Begin(p, o, "insert")
    /\ UNCHANGED coreVars
    /\ UNCHANGED <<status, max_backups, hseed, decks, cards, reviews,
                   created_at, updated_at, primary, backups, dirs, now, sec,
                   snapshot, restarts, nextDeck, nextReview, wpre, stopped,
                   openedOn, written, initImg>>

\* lines 266-269: the card is inserted under the write lock
AddCardInsert(p) ==
    /\ status = "open"
    /\ pc[p] = "insert"
    /\ cards' = Put(cards, op[p].id,
                    [id |-> op[p].id, deck_id |-> op[p].deck,
                     suspended |-> FALSE, ver |-> 0])
    /\ pc' = [pc EXCEPT ![p] = "save"]
    /\ op' = [op EXCEPT ![p].at = now]
    /\ UNCHANGED coreVars
    /\ UNCHANGED <<status, max_backups, hseed, decks, reviews, created_at,
                   updated_at, primary, backups, dirs, now, sec, snapshot,
                   res, nops, restarts, nextDeck, nextCard, nextReview, wpre,
                   overlapped, stopped, openedOn, written, initImg>>

\* variant: the stored card keeps its deck_id, the other fields are replaced
UpdateCard_m(p, card) ==
    /\ CanBegin(p)
    /\ LET o == [kind |-> "update_card", id |-> card.id, deck |-> card.deck_id]
       IN IF card.id \notin DOMAIN cards
          THEN /\ Fail(p, o, "NotFound")
               /\ UNCHANGED cards
          ELSE /\ cards' = [cards EXCEPT ![card.id].suspended = card.suspended,
                                         ![card.id].ver = card.ver]
               /\ Begin(p, o, "save")
    /\ UNCHANGED coreVars
    /\ UNCHANGED <<status, max_backups, hseed, decks, reviews, created_at,
                   updated_at, primary, backups, dirs, now, sec, snapshot,
                   restarts, nextDeck, nextCard, nextReview, wpre, stopped,
                   openedOn, written, initImg>>

\* lines 288-298
UpdateCard(p, card) ==
    /\ CanBegin(p)
    /\ LET o == [kind |-> "update_card", id |-> card.id, deck |-> card.deck_id]
       IN IF card.id \notin DOMAIN cards
          THEN /\ Fail(p, o, "NotFound")
               /\ UNCHANGED cards
          ELSE /\ cards' = Put(cards, card.id, card)
               /\ Begin(p, o, "save")
    /\ UNCHANGED coreVars
    /\ UNCHANGED <<status, max_backups, hseed, decks, reviews, created_at,
                   updated_at, primary, backups, dirs, now, sec, snapshot,
                   restarts, nextDeck, nextCard, nextReview, wpre, stopped,
                   openedOn, written, initImg>>

\* variant: the card is removed, its reviews are kept
DeleteCard_m(p, id) ==
    /\ CanBegin(p)
    /\ LET o == [kind |-> "delete_card", id |-> id, deck |-> 0]
       IN IF id \notin DOMAIN cards
          THEN /\ Fail(p, o, "NotFound")
               /\ UNCHANGED <<cards, reviews>>
          ELSE /\ cards' = Restrict(cards, DOMAIN cards \ {id})
               /\ UNCHANGED reviews
               /\ Begin(p, o, "save")
    /\ UNCHANGED coreVars
    /\ UNCHANGED <<status, max_backups, hseed, decks, created_at, updated_at,
                   primary, backups, dirs, now, sec, snapshot, restarts,
                   nextDeck, nextCard, nextReview, wpre, stopped,
                   openedOn, written, initImg>>

\* variant: the reviews go before the card is looked up
DeleteCard_e(p, id) ==
    /\ CanBegin(p)
    /\ LET o == [kind |-> "delete_card", id |-> id, deck |-> 0]
       IN /\ reviews' = Restrict(reviews, DOMAIN reviews \ {id})
          /\ IF id \notin DOMAIN cards
             THEN /\ Fail(p, o, "NotFound")
                  /\ UNCHANGED cards
             ELSE /\ cards' = Restrict(cards, DOMAIN cards \ {id})
                  /\ Begin(p, o, "save")
    /\ UNCHANGED coreVars
    /\ UNCHANGED <<status, max_backups, hseed, decks, created_at, updated_at,
                   primary, backups, dirs, now, sec, snapshot, restarts,
                   nextDeck, nextCard, nextReview, wpre, stopped,
                   openedOn, written, initImg>>

\* lines 300-309
DeleteCard(p, id) ==
    /\ CanBegin(p)
    /\ LET o == [kind |-> "delete_card", id |-> id, deck |-> 0]
       IN IF id \notin DOMAIN cards
          THEN /\ Fail(p, o, "NotFound")
               /\ UNCHANGED <<cards, reviews>>
          ELSE /\ cards' = Restrict(cards, DOMAIN cards \ {id})
               /\ reviews' = Restrict(reviews, DOMAIN reviews \ {id})
               /\ Begin(p, o, "save")
    /\ UNCHANGED coreVars
    /\ UNCHANGED <<status, max_backups, hseed, decks, created_at, updated_at,
                   primary, backups, dirs, now, sec, snapshot, restarts,
                   nextDeck, nextCard, nextReview, wpre, stopped,
                   openedOn, written, initImg>>

\* lines 311-320
SetSuspended(p, id, suspended) ==
    /\ CanBegin(p)
    /\ LET o == [kind |-> "set_suspended", id |-> id, deck |-> 0]
       IN IF id \notin DOMAIN cards
          THEN /\ Fail(p, o, "NotFound")
               /\ UNCHANGED cards
          ELSE /\ cards' = [cards EXCEPT ![id].suspended = suspended]
               /\ Begin(p, o, "save")
    /\ UNCHANGED coreVars
    /\ UNCHANGED <<status, max_backups, hseed, decks, reviews, created_at,
                   updated_at, primary, backups, dirs, now, sec, snapshot,
                   restarts, nextDeck, nextCard, nextReview, wpre, stopped,
                   openedOn, written, initImg>>

\* variant: the new review replaces the card's list
InsertReview_r(p, card_id) ==
    /\ CanBegin(p)
    /\ nextReview <= MaxReviews
    /\ LET o == [kind |-> "insert_review", id |-> nextReview, deck |-> 0]
           review == [id |-> nextReview, card_id |-> card_id]
       IN /\ reviews' = Put(reviews, card_id, <<review>>)
          /\ nextReview' = nextReview + 1
          /\ Begin(p, o, "save")
    /\ UNCHANGED coreVars
    /\ UNCHANGED <<status, max_backups, hseed, decks, cards, created_at,
                   updated_at, primary, backups, dirs, now, sec, snapshot,
                   restarts, nextDeck, nextCard, wpre, stopped, openedOn,
                   written, initImg>>

\* variant: the review of a card that is not stored is rejected
InsertReview_m(p, card_id) ==
    /\ CanBegin(p)
    /\ nextReview <= MaxReviews
    /\ LET o == [kind |-> "insert_review", id |-> nextReview, deck |-> 0]
           review == [id |-> nextReview, card_id |-> card_id]
           prior == IF card_id \in DOMAIN reviews THEN reviews[card_id]
                    ELSE <<>>
       IN IF card_id \notin DOMAIN cards
          THEN /\ Fail(p, o, "NotFound")
               /\ UNCHANGED <<reviews, nextReview>>
          ELSE /\ reviews' = Put(reviews, card_id, Append(prior, review))
               /\ nextReview' = nextReview + 1
               /\ Begin(p, o, "save")
    /\ UNCHANGED coreVars
    /\ UNCHANGED <<status, max_backups, hseed, decks, cards, created_at,
                   updated_at, primary, backups, dirs, now, sec, snapshot,
                   restarts, nextDeck, nextCard, wpre, stopped, openedOn,
                   written, initImg>>

\* lines 322-328: no check against the cards
InsertReview(p, card_id) ==
    /\ CanBegin(p)
    /\ nextReview <= MaxReviews
    /\ LET o == [kind |-> "insert_review", id |-> nextReview, deck |-> 0]
           review == [id |-> nextReview, card_id |-> card_id]
           prior == IF card_id \in DOMAIN reviews THEN reviews[card_id]
                    ELSE <<>>
       IN /\ reviews' = Put(reviews, card_id, Append(prior, review))
          /\ nextReview' = nextReview + 1
          /\ Begin(p, o, "save")
    /\ UNCHANGED coreVars
    /\ UNCHANGED <<status, max_backups, hseed, decks, cards, created_at,
                   updated_at, primary, backups, dirs, now, sec, snapshot,
                   restarts, nextDeck, nextCard, wpre, stopped, openedOn,
                   written, initImg>>

\* ---- the reading operations, on the maps of the index --------------------
\* Result<T, CoreError>
Ok(v) == [ok |-> TRUE, value |-> v]
Err(e) == [ok |-> FALSE, err |-> e]

\* lines 223-226
get_deck(ds, id) == IF id \in DOMAIN ds THEN Ok(ds[id]) ELSE Err("NotFound")

\* lines 274-277
get_card(cs, id) == IF id \in DOMAIN cs THEN Ok(cs[id]) ELSE Err("NotFound")

\* lines 330-333: get(&card_id).cloned().unwrap_or_default()
list_reviews_for_card(rs, card_id) ==
    IF card_id \in DOMAIN rs THEN rs[card_id] ELSE <<>>

\* the kind of a result: "ok" or the error
ResultKind(r) == IF r.ok THEN "ok" ELSE r.err

\* a reading operation takes state.read(), computes its result r from the
\* index and returns it
Answer(p, r) ==
    /\ CanBegin(p)
    /\ nops' = nops + 1
    /\ res' = [res EXCEPT ![p] = ResultKind(r)]
    /\ UNCHANGED coreVars
    /\ UNCHANGED <<status, max_backups, hseed, decks, cards, reviews,
                   created_at, updated_at, primary, backups, dirs, now, sec,
                   pc, op, snapshot, restarts, nextDeck, nextCard, nextReview,
                   wpre, overlapped, stopped, openedOn, written, initImg>>

\* lines 223-226
GetDeck(p, id) == Answer(p, get_deck(decks, id))

\* lines 228-231
ListDecks(p) == Answer(p, Ok(Values(decks, hseed)))

\* lines 274-277
GetCard(p, id) == Answer(p, get_card(cards, id))

\* lines 330-333
ListReviewsForCard(p, card_id) ==
    Answer(p, Ok(list_reviews_for_card(reviews, card_id)))

\* ---- the environment ---------------------------------------------------
Forget ==
    /\ status' = "closed"
    /\ decks' = EmptyMap /\ cards' = EmptyMap /\ reviews' = EmptyMap
    /\ pc' = [p \in Procs |-> "idle"]
    /\ op' = [p \in Procs |-> NoOp]
    /\ snapshot' = [p \in Procs |-> NoImage]
    /\ res' = [p \in Procs |-> "none"]

\* the process is interrupted at any point: memory is lost, the disk stays
Crash ==
    /\ status \in {"opening", "open"}
    /\ ~Idle
    /\ restarts < MaxRestarts
    /\ restarts' = restarts + 1
    /\ Forget
    /\ stopped' = [how |-> "crash",
                   writes |-> {[pre |-> wpre[p],
                                post |-> ImageFile(snapshot[p])] :
                               p \in {q \in Procs : InWrite(q)}}]
    /\ UNCHANGED coreVars
    /\ UNCHANGED <<max_backups, hseed, created_at, updated_at, primary,
                   backups, dirs, now, sec, nops, nextDeck, nextCard,
                   nextReview, wpre, overlapped, openedOn, written, initImg>>

\* the store is dropped when no operation is running
Close ==
    /\ status = "open"
    /\ Idle
    /\ restarts < MaxRestarts
    /\ restarts' = restarts + 1
    /\ Forget
    /\ stopped' = [how |-> "drop", index |-> Index(State)]
    /\ UNCHANGED coreVars
    /\ UNCHANGED <<max_backups, hseed, created_at, updated_at, primary,
                   backups, dirs, now, sec, nops, nextDeck, nextCard,
                   nextReview, wpre, overlapped, openedOn, written, initImg>>

\* the cards a caller passes to update_card: an edited card, any id and deck
CardInputs == [id : CardIds, deck_id : DeckIds, suspended : {TRUE},
               ver : {MaxVer}]

\* a caller invokes an operation
Invoke(p) ==
    \/ \E name \in Names : CreateDeck(p, name)
    \/ \E id \in DeckIds : DeleteDeck(p, id)
    \/ \E id \in DeckIds : AddCard(p, id)
    \/ \E card \in CardInputs : UpdateCard(p, card)
    \/ \E id \in CardIds : DeleteCard(p, id)
    \/ \E id \in CardIds, b \in BOOLEAN : SetSuspended(p, id, b)
    \/ \E id \in CardIds : InsertReview(p, id)

\* a running operation (or the initialising open) takes its next step; the
\* backup step, which reads the clock, is scheduled by each specification
Continue(p) ==
    \/ AddCardInsert(p)
    \/ SaveSnapshot(p)
    \/ RemovePrimary(p)
    \/ PersistPrimary(p)
    \/ RotateBackups(p)
    \/ Return(p)

\* ---- the scheduler (flashmaster-core/src/scheduler.rs) -------------------
\* ef in hundredths; the arithmetic of apply_grade on these is exact
EF_MIN == 130
EF_MAX == 280
EF_DEFAULT == 250
Grades == {"Hard", "Medium", "Easy"}

as_score(grade) ==
    CASE grade = "Hard" -> 1
      [] grade = "Medium" -> 2
      [] grade = "Easy" -> 3

\* variant: only the lower limit is applied
clamp_ef_m(x) == IF x < EF_MIN THEN EF_MIN ELSE x

\* lines 9-11
clamp_ef(x) == IF x < EF_MIN THEN EF_MIN ELSE IF x > EF_MAX THEN EF_MAX ELSE x

\* f32::round of n / d for n >= 0: halves go away from zero
RoundDiv(n, d) == (2 * n + d) \div (2 * d)

\* line 36: (base * ef).round() for ef = f / 100, the whole hundreds of base
\* multiplied apart so that the product stays within the integers at hand
MulRound(base, f) == (base \div 100) * f + RoundDiv((base % 100) * f, 100)

\* lines 15-20
new_ef(c, grade) ==
    LET g == as_score(grade)
        delta == 10 - (3 - g) * (8 + (3 - g) * 2)
    IN clamp_ef(c.ef + delta)

\* ---- the same computation in f32 -----------------------------------------
\* An f32 is held as an integer count of 2^-29: every literal of line 18 and
\* every ef in [1, 4) is a whole number of these. The literals as f32:
LIT_0_1 == 53687092
LIT_0_08 == 42949672
LIT_0_02 == 10737418
EF_MIN_F32 == 697932160
EF_MAX_F32 == 1503238528
EF_DEFAULT_F32 == 1342177280

Abs(x) == IF x < 0 THEN 0 - x ELSE x

\* the spacing of f32 values around a magnitude x: 24 significant bits
RECURSIVE Ulp(_)
Ulp(x) == IF x < 2^24 THEN 1 ELSE 2 * Ulp(x \div 2)

\* the f32 nearest to x, ties to the even significand
F32(x) ==
    LET a == Abs(x)
        u == Ulp(a)
        q == a \div u
        r == a % u
        m == IF 2 * r > u \/ (2 * r = u /\ q % 2 = 1) THEN q + 1 ELSE q
    IN IF x < 0 THEN 0 - m * u ELSE m * u

\* line 18: every operation rounds to f32
delta_f32(g) ==
    LET k == 3 - g
    IN F32(LIT_0_1 - F32(k * F32(LIT_0_08 + F32(k * LIT_0_02))))

\* lines 9-11 on f32
clamp_ef_f32(x) ==
    IF x < EF_MIN_F32 THEN EF_MIN_F32 ELSE IF x > EF_MAX_F32 THEN EF_MAX_F32 ELSE x

\* variant: the factor (3 - g) on 0.02 is left out
new_ef_f32_m(e, grade) ==
    LET k == 3 - as_score(grade)
        d == F32(LIT_0_1 - F32(k * F32(LIT_0_08 + LIT_0_02)))
    IN clamp_ef_f32(F32(e + d))

\* lines 15-20 on f32
new_ef_f32(e, grade) == clamp_ef_f32(F32(e + delta_f32(as_score(grade))))

\* the f32 nearest to the decimal e / 100, 1 <= e / 100 < 4
DecToF32(e) ==
    F32((e \div 100) * 2^29 + (e % 100) * 5368709 + ((e % 100) * 12) \div 100)

\* the f32 values next to x that lie in [EF_MIN, EF_MAX]
F32Near(x) ==
    {y \in {x - Ulp(x), x, x + Ulp(x)} : y >= EF_MIN_F32 /\ y <= EF_MAX_F32}

\* ---- time ---------------------------------------------------------------
\* A DateTime is a date and a time of day: the day number and the tick
\* within the day, TicksPerHour ticks to the hour.
HOURS_PER_DAY == 24
Day == HOURS_PER_DAY * TicksPerHour
Instant(d, k) == [day |-> d, tick |-> k]
Epoch == Instant(0, 0)
NoTime == Instant(0 - 1, 0)

\* the instant d ticks after t
Advance(t, d) == Instant(t.day + (t.tick + d) \div Day, (t.tick + d) % Day)

\* a < b on DateTime
Before(a, b) == a.day < b.day \/ (a.day = b.day /\ a.tick < b.tick)

\* b - a on DateTime, in ticks
Elapsed(a, b) == (b.day - a.day) * Day + (b.tick - a.tick)

\* variant: the lapse test is g < 1, which no grade meets
new_reps_m(c, grade) ==
    IF as_score(grade) < 1 THEN 0 ELSE c.reps + 1

\* lines 25-29
new_reps(c, grade) ==
    IF as_score(grade) < 2 THEN 0 ELSE c.reps + 1

\* variant: the first successful grade leaves the interval at 0 days
new_interval_first0(c, grade) ==
    IF as_score(grade) < 2 THEN 1
    ELSE IF new_reps(c, grade) = 1 THEN 0
    ELSE IF new_reps(c, grade) = 2 THEN 6
    ELSE LET base == IF c.interval_days > 1 THEN c.interval_days ELSE 1
             r == MulRound(base, new_ef(c, grade))
         IN IF r > 1 THEN r ELSE 1

\* variant: the interval is scaled by the ef before the grade
new_interval_m(c, grade) ==
    IF as_score(grade) < 2 THEN 1
    ELSE IF new_reps(c, grade) = 1 THEN 1
    ELSE IF new_reps(c, grade) = 2 THEN 6
    ELSE LET base == IF c.interval_days > 1 THEN c.interval_days ELSE 1
             r == MulRound(base, c.ef)
         IN IF r > 1 THEN r ELSE 1

\* lines 25-38
new_interval(c, grade) ==
    IF as_score(grade) < 2 THEN 1
    ELSE IF new_reps(c, grade) = 1 THEN 1
    ELSE IF new_reps(c, grade) = 2 THEN 6
    ELSE LET base == IF c.interval_days > 1 THEN c.interval_days ELSE 1
             r == MulRound(base, new_ef(c, grade))
         IN IF r > 1 THEN r ELSE 1

\* line 43: now + Duration::days(n) panics past the last date chrono holds;
\* DATE_MAX_DAYS is that date in days after instant 0
DATE_MAX_DAYS == 95026236
add_days_overflows(t, n) == t.day + n > DATE_MAX_DAYS

\* variant: Duration::hours in place of Duration::days
add_days_m(t, n) == Advance(t, n * TicksPerHour)

\* line 43: now + Duration::days(n)
add_days(t, n) == Instant(t.day + n, t.tick)

\* variant: new is "never graded"
is_new_m(c) == c.reps = 0 /\ c.last_grade = "None"

\* models.rs lines 97-99
is_new(c) == c.reps = 0

\* TimeDelta::num_hours of a duration d >= 0: whole hours, the rest dropped
num_hours(d) == d \div TicksPerHour

\* models.rs line 108
LAPSE_HOURS == 24

\* variant: the Future test comes first
due_status_m(c, t) ==
    IF Before(t, c.due_at) THEN "Future"
    ELSE IF is_new(c) THEN "New"
    ELSE IF num_hours(Elapsed(c.due_at, t)) >= LAPSE_HOURS THEN "Lapsed"
    ELSE "DueToday"

\* models.rs lines 101-114
due_status(c, t) ==
    IF is_new(c) THEN "New"
    ELSE IF Before(t, c.due_at) THEN "Future"
    ELSE IF num_hours(Elapsed(c.due_at, t)) >= LAPSE_HOURS THEN "Lapsed"
    ELSE "DueToday"

\* variant: a graded card is taken back into the reviews
apply_grade_m(c, grade, t) ==
    [updated_card |-> [c EXCEPT !.ef = new_ef(c, grade),
                                !.reps = new_reps(c, grade),
                                !.interval_days = new_interval(c, grade),
                                !.due_at = add_days(t, new_interval(c, grade)),
                                !.last_grade = grade,
                                !.last_reviewed_at = t,
                                !.suspended = FALSE],
     review |-> [card_id |-> c.id,
                 grade |-> grade,
                 reviewed_at |-> t,
                 interval_applied |-> new_interval(c, grade),
                 ef_after |-> new_ef(c, grade)]]

\* lines 13-50, for a call at instant t that returns. A call returns only
\* with new_interval <= DATE_MAX_DAYS < 2^31, where `as i32' (line 47)
\* changes nothing.
apply_grade(c, grade, t) ==
    [updated_card |-> [c EXCEPT !.ef = new_ef(c, grade),
                                !.reps = new_reps(c, grade),
                                !.interval_days = new_interval(c, grade),
                                !.due_at = add_days(t, new_interval(c, grade)),
                                !.last_grade = grade,
                                !.last_reviewed_at = t],
     review |-> [card_id |-> c.id,
                 grade |-> grade,
                 reviewed_at |-> t,
                 interval_applied |-> new_interval(c, grade),
                 ef_after |-> new_ef(c, grade)]]

\* the call does not return: line 43
apply_grade_panics(c, grade, t) == add_days_overflows(t, new_interval(c, grade))

\* ---- the parts not in use ------------------------------------------------
FiltIdle ==
    /\ f_cards = <<>>
    /\ f_now = Epoch
    /\ f_out = EmptyMap

QueueIdle ==
    /\ q_cards = EmptyMap
    /\ q_now = Epoch
    /\ q_out = EmptyMap

MemIdle ==
    /\ m_decks = EmptyMap
    /\ m_pc = [p \in Procs |-> "idle"]
    /\ m_op = [p \in Procs |-> <<>>]
    /\ m_res = [p \in Procs |-> <<>>]
    /\ m_next = 1
    /\ m_cards = EmptyMap
    /\ m_reviews = EmptyMap
    /\ m_lock = 0
    /\ m_calls = 0

\* no server runs
ApiIdle ==
    /\ a_store = "json"
    /\ a_cards = EmptyMap
    /\ a_reviews = EmptyMap
    /\ a_file = [cards |-> EmptyMap, reviews |-> EmptyMap]
    /\ a_pc = "idle"
    /\ a_req = <<>>
    /\ a_resp = <<>>
    /\ a_log = <<>>

\* no concurrent requests
ConcIdle ==
    /\ c_pc = [p \in Procs |-> "idle"]
    /\ c_req = [p \in Procs |-> <<>>]
    /\ c_res = [p \in Procs |-> 0]

\* TuiApp::new, app.rs lines 29-31; no terminal runs
TuiNew ==
    /\ t_decks = <<>>
    /\ t_sel = 0
    /\ t_queue = <<>>
    /\ t_idx = 0
    /\ t_reveal = FALSE
    /\ t_in_review = FALSE
    /\ t_pc = "new"
    /\ t_keys = 0
    /\ t_session = 0
    /\ t_hist = <<>>

\* no statistics are computed
StatsIdle ==
    /\ s_reviews = <<>>
    /\ s_today = 0
    /\ s_out = <<>>

FrontIdle == ApiIdle /\ ConcIdle /\ TuiNew /\ StatsIdle

\* the cards grading starts from: any counters within the bounds, any ef in
\* [EF_MIN, EF_MAX] on a grid that contains both ends and the default
EfInputs == {e \in EF_MIN..EF_MAX : (e - EF_MIN) % EfGrid = 0}

CardsIn == [id : {1}, reps : 0..MaxInitReps, interval_days : 0..MaxInitInterval,
            ef : EfInputs, last_grade : {"None"}, due_at : {Epoch},
            last_reviewed_at : {NoTime}, created_at : {Epoch}]

\* Card::new, models.rs lines 78-95
NewCard == [id |-> 1, reps |-> 0, interval_days |-> 0, ef |-> EF_DEFAULT,
            last_grade |-> "None", due_at |-> Epoch,
            last_reviewed_at |-> NoTime, created_at |-> Epoch]

SchedIdle ==
    /\ sched_card = NewCard
    /\ out = <<>>
    /\ ngrades = 0
    /\ ef_f32 = EF_DEFAULT_F32
    /\ sched_now = Epoch
    /\ panicked = FALSE

InitSched ==
    /\ InitStore
    /\ primary = MissingFile
    /\ sched_card \in CardsIn
    /\ out = <<>>
    /\ ngrades = 0
    /\ ef_f32 \in F32Near(DecToF32(sched_card.ef))
    /\ sched_now = Epoch
    /\ panicked = FALSE
    /\ FiltIdle /\ QueueIdle /\ MemIdle /\ FrontIdle

\* one call of apply_grade, Utc::now() reading t
ApplyGrade(grade, t) ==
    /\ ngrades < MaxGrades
    /\ LET o == apply_grade(sched_card, grade, t)
       IN /\ o.updated_card.reps <= MaxReps
          /\ o.updated_card.interval_days <= MaxInterval
          /\ sched_card' = o.updated_card
          /\ out' = Append(out, o.review)
    /\ ef_f32' = new_ef_f32(ef_f32, grade)
    /\ sched_now' = t
    /\ ngrades' = ngrades + 1
    /\ UNCHANGED <<storeVars, filtVars, queueVars, memVars, frontVars,
                   panicked>>

NextSched ==
    \E grade \in Grades, d \in 0..MaxTick :
        ApplyGrade(grade, Advance(sched_now, d))

SpecSched == InitSched /\ [][NextSched]_vars

\* ---- long grading histories of a freshly added card ----------------------
\* one call of apply_grade, which may not return; only the review of the
\* last call is kept
ApplyGradeLong(grade) ==
    /\ ngrades < MaxLongGrades
    /\ ~panicked
    /\ IF apply_grade_panics(sched_card, grade, sched_now)
       THEN /\ panicked' = TRUE
            /\ UNCHANGED <<sched_card, out, ef_f32>>
       ELSE LET o == apply_grade(sched_card, grade, sched_now)
            IN /\ sched_card' = o.updated_card
               /\ out' = <<o.review>>
               /\ ef_f32' = new_ef_f32(ef_f32, grade)
               /\ UNCHANGED panicked
    /\ ngrades' = ngrades + 1
    /\ UNCHANGED <<storeVars, filtVars, queueVars, memVars, frontVars,
                   sched_now>>

InitLong ==
    /\ InitStore
    /\ primary = MissingFile
    /\ SchedIdle
    /\ FiltIdle /\ QueueIdle /\ MemIdle /\ FrontIdle

NextLong == \E grade \in Grades : ApplyGradeLong(grade)

SpecLong == InitLong /\ [][NextLong]_vars

\* ---- filters.rs: selection by due status --------------------------------
\* models.rs lines 33-38
Statuses == {"New", "DueToday", "Future", "Lapsed"}

\* variant: a card that was never graded passes every filter
filter_by_due_m(cs, t, want) ==
    SelectSeq(cs, LAMBDA c : due_status(c, t) = want \/ is_new(c))

\* filters.rs lines 33-39
filter_by_due(cs, t, want) ==
    SelectSeq(cs, LAMBDA c : due_status(c, t) = want)

\* the slices handed to filter_by_due: up to MaxSeqLen cards, the card at
\* position i has id i; due dates around the two reference times, among them
\* the reference time itself and the instants 24 hours, one tick less and
\* one tick more than 24 hours before it
DueTimes == {Instant(0, Day - 1), Instant(1, 0), Instant(1, 1),
             Instant(2, 0), Instant(2, 1), Instant(3, 0)}

NowTimes == {Instant(2, 0), Instant(2, 1)}

CardKinds == [reps : 0..1, due_at : DueTimes]

InitDue ==
    /\ InitStore
    /\ primary = MissingFile
    /\ SchedIdle
    /\ QueueIdle /\ MemIdle /\ FrontIdle
    /\ \E n \in 0..MaxSeqLen : \E k \in [1..n -> CardKinds] :
          f_cards = [i \in 1..n |-> [id |-> i, reps |-> k[i].reps,
                                     due_at |-> k[i].due_at]]
    /\ f_now \in NowTimes
    /\ f_out = EmptyMap

\* one call filter_by_due(&cards, now, want); each status is asked for once
FilterByDue(want) ==
    /\ want \notin DOMAIN f_out
    /\ f_out' = Put(f_out, want, filter_by_due(f_cards, f_now, want))
    /\ UNCHANGED <<storeVars, schedVars, queueVars, memVars, frontVars,
                   f_cards, f_now>>

NextDue == \E want \in Statuses : FilterByDue(want)

SpecDue == InitDue /\ [][NextDue]_vars

\* ---- the review queue of the front-ends ----------------------------------
\* Option<T>: None is <<>>, Some(v) is <<v>>
None == <<>>
Some(v) == <<v>>
unwrap_or(o, d) == IF o = None THEN d ELSE o[1]

\* variant: suspended cards are kept
filter_not_suspended_m(cs) == cs

\* filters.rs lines 41-43
filter_not_suspended(cs) == SelectSeq(cs, LAMBDA c : ~c.suspended)

\* Repository::list_cards of a repository whose HashMap iterates in the
\* order `seed'
list_cards(m, seed, deck_id) ==
    SelectSeq(Values(m, seed),
              LAMBDA c : deck_id = None \/ c.deck_id = deck_id[1])

\* (a.due_at, a.created_at) < (b.due_at, b.created_at), the order of tuples
key_lt(a, b) ==
    \/ Before(a.due_at, b.due_at)
    \/ a.due_at = b.due_at /\ Before(a.created_at, b.created_at)

\* x put behind the last element of the sorted s whose key is not greater
insert_sorted(s, x) ==
    LET n == Cardinality({i \in 1..Len(s) : ~key_lt(x, s[i])})
    IN SubSeq(s, 1, n) \o <<x>> \o SubSeq(s, n + 1, Len(s))

\* slice::sort_by_key(|c| (c.due_at, c.created_at)): a stable sort
RECURSIVE sort_by_key(_)
sort_by_key(s) ==
    IF s = <<>> THEN <<>>
    ELSE insert_sorted(sort_by_key(SubSeq(s, 1, Len(s) - 1)), s[Len(s)])

\* Iterator::take(n) and Vec::truncate(n)
take(s, n) == SubSeq(s, 1, IF n < Len(s) THEN n ELSE Len(s))

\* commands.rs lines 157-172: the cards review_cmd presents, in order
review_cmd(m, seed, deck_filter, include_new, include_lapsed, max, t) ==
    LET cs == filter_not_suspended(list_cards(m, seed, deck_filter))
        pool == (IF include_new THEN filter_by_due(cs, t, "New") ELSE <<>>)
                \o filter_by_due(cs, t, "DueToday")
                \o (IF include_lapsed THEN filter_by_due(cs, t, "Lapsed")
                    ELSE <<>>)
    IN take(sort_by_key(pool), max)

\* routes.rs lines 40-48: the cards due_cards answers with, in order
due_cards(m, seed, deck_id, include_new, include_lapsed, max, t) ==
    LET cs == filter_not_suspended(list_cards(m, seed, deck_id))
        pool == (IF unwrap_or(include_new, FALSE)
                 THEN filter_by_due(cs, t, "New") ELSE <<>>)
                \o filter_by_due(cs, t, "DueToday")
                \o (IF unwrap_or(include_lapsed, FALSE)
                    THEN filter_by_due(cs, t, "Lapsed") ELSE <<>>)
        sorted == sort_by_key(pool)
    IN IF max = None THEN sorted ELSE take(sorted, max[1])

\* app.rs lines 46-54: TuiApp.queue after build_queue for the deck did
build_queue(m, seed, did, t) ==
    LET cs == filter_not_suspended(list_cards(m, seed, Some(did)))
        pool == filter_by_due(cs, t, "DueToday")
                \o filter_by_due(cs, t, "New")
                \o filter_by_due(cs, t, "Lapsed")
    IN sort_by_key(pool)

\* the decks of the repository, and a selector that names none of them
QueueDecks == 1..2
NoSuchDeck == 3

\* resolve_deck: the deck a selector names, if any
resolve_deck(sel) == IF sel \in QueueDecks THEN Some(sel) ELSE None

\* the stored cards: the front-ends read them at QueueNow; a card then due
\* for exactly 24 hours, one due at that instant and one due a day later
QueueNow == Instant(2, 0)

QueueKinds == [deck_id : QueueDecks, suspended : BOOLEAN, reps : 0..1,
               due_at : {Instant(1, 0), Instant(2, 0), Instant(3, 0)},
               created_at : {Instant(0, 0), Instant(0, 1)}]

InitQueue ==
    /\ InitStore
    /\ primary = MissingFile
    /\ SchedIdle
    /\ FiltIdle /\ MemIdle /\ FrontIdle
    /\ \E n \in 0..MaxQueueCards : \E k \in [1..n -> QueueKinds] :
          q_cards = [i \in 1..n |->
                        [id |-> i, deck_id |-> k[i].deck_id,
                         suspended |-> k[i].suspended, reps |-> k[i].reps,
                         due_at |-> k[i].due_at,
                         created_at |-> k[i].created_at]]
    /\ q_now = QueueNow
    /\ q_out = EmptyMap

\* what a front-end was asked and what it built; order is the iteration
\* order of the HashMap list_cards read
Built(by, deck, include_new, include_lapsed, max, seed, err, queue) ==
    [by |-> by, deck |-> deck, include_new |-> include_new,
     include_lapsed |-> include_lapsed, max |-> max, order |-> seed,
     err |-> err, queue |-> queue]

\* a run ends with the first queue built: the front-ends only read the
\* stored cards, so a later request builds what it would have built first
NoQueueYet == DOMAIN q_out = {}

\* flashmaster review [--deck sel] [--include-new] [--include-lapsed]
\* [--max n]
ReviewCmd(sel, include_new, include_lapsed, max, seed) ==
    /\ NoQueueYet
    /\ LET deck_filter == IF sel = None THEN None ELSE resolve_deck(sel[1])
       IN q_out' =
            IF sel /= None /\ deck_filter = None
            THEN Built("cli", sel, include_new, include_lapsed, Some(max),
                       seed, TRUE, <<>>)
            ELSE Built("cli", sel, include_new, include_lapsed, Some(max),
                       seed, FALSE,
                       review_cmd(q_cards, seed, deck_filter, include_new,
                                  include_lapsed, max, q_now))
    /\ UNCHANGED <<storeVars, schedVars, filtVars, memVars, frontVars,
                   q_cards, q_now>>

\* GET /due?deck=..&include_new=..&include_lapsed=..&max=..
DueCards(sel, include_new, include_lapsed, max, seed) ==
    /\ NoQueueYet
    /\ LET deck_id == IF sel = None THEN None ELSE resolve_deck(sel[1])
       IN q_out' =
            IF sel /= None /\ deck_id = None
            THEN Built("http", sel, unwrap_or(include_new, FALSE),
                       unwrap_or(include_lapsed, FALSE), max, seed, TRUE,
                       <<>>)
            ELSE Built("http", sel, unwrap_or(include_new, FALSE),
                       unwrap_or(include_lapsed, FALSE), max, seed, FALSE,
                       due_cards(q_cards, seed, deck_id, include_new,
                                 include_lapsed, max, q_now))
    /\ UNCHANGED <<storeVars, schedVars, filtVars, memVars, frontVars,
                   q_cards, q_now>>

\* TuiApp::build_queue with the deck did selected
BuildQueue(did, seed) ==
    /\ NoQueueYet
    /\ q_out' = Built("tui", Some(did), TRUE, TRUE, None, seed, FALSE,
                      build_queue(q_cards, seed, did, q_now))
    /\ UNCHANGED <<storeVars, schedVars, filtVars, memVars, frontVars,
                   q_cards, q_now>>

DeckSels == {None} \cup {Some(d) : d \in QueueDecks \cup {NoSuchDeck}}
OptBools == {None, Some(TRUE), Some(FALSE)}

NextQueue ==
    \/ \E sel \in DeckSels, n, l \in BOOLEAN, max \in 0..MaxQueueCards,
          seed \in Seeds : ReviewCmd(sel, n, l, max, seed)
    \/ \E sel \in DeckSels, n, l \in OptBools,
          max \in {None} \cup {Some(x) : x \in 0..MaxQueueCards},
          seed \in Seeds : DueCards(sel, n, l, max, seed)
    \/ \E did \in QueueDecks, seed \in Seeds : BuildQueue(did, seed)

SpecQueue == InitQueue /\ [][NextQueue]_vars

\* ---- MemoryRepo: concurrent create_deck ----------------------------------
\* the names given to create_deck. "U+00C9" and "U+00E9" stand for the
\* one-letter names LATIN CAPITAL LETTER E WITH ACUTE and LATIN SMALL LETTER
\* E WITH ACUTE, which str::eq_ignore_ascii_case tells apart: Lower changes
\* ASCII letters only
MemNames == {"a", "A", "U+00C9", "U+00E9"}

InitMem ==
    /\ InitStore
    /\ primary = MissingFile
    /\ SchedIdle
    /\ FiltIdle /\ QueueIdle
    /\ MemIdle /\ FrontIdle

\* memory.rs line 22: Deck::new(name), before the lock is asked for
MemDeckNew(p, name) ==
    /\ m_pc[p] = "idle"
    /\ m_next <= MaxMemCalls
    /\ m_op' = [m_op EXCEPT ![p] = <<[id |-> m_next, name |-> name]>>]
    /\ m_next' = m_next + 1
    /\ m_pc' = [m_pc EXCEPT ![p] = "lock"]
    /\ UNCHANGED <<storeVars, schedVars, filtVars, queueVars, frontVars,
                   m_decks, m_res, memMore>>

\* memory.rs lines 23-28, under self.decks.write()
mem_create_deck(ds, deck) ==
    IF \E d \in DOMAIN ds : eq_ignore_ascii_case(ds[d].name, deck.name)
    THEN [decks |-> ds, result |-> "Conflict"]
    ELSE [decks |-> Put(ds, deck.id, deck), result |-> "Ok"]

\* the caller holds the write lock from the test to the insertion
MemCreateDeck(p) ==
    /\ m_pc[p] = "lock"
    /\ LET o == mem_create_deck(m_decks, m_op[p][1])
       IN /\ m_decks' = o.decks
          /\ m_res' = [m_res EXCEPT
                          ![p] = Append(@, [name |-> m_op[p][1].name,
                                            result |-> o.result])]
    /\ m_pc' = [m_pc EXCEPT ![p] = "idle"]
    /\ m_op' = [m_op EXCEPT ![p] = <<>>]
    /\ UNCHANGED <<storeVars, schedVars, filtVars, queueVars, frontVars,
                   m_next, memMore>>

NextMem ==
    \/ \E p \in Procs, name \in MemNames : MemDeckNew(p, name)
    \/ \E p \in Procs : MemCreateDeck(p)

SpecMem == InitMem /\ [][NextMem]_vars

\* ---- MemoryRepo: the operations on decks, cards and reviews --------------
\* Every critical section of one of the three RwLocks is one atomic step.
\* delete_deck holds cards.write() from line 48 to its return; m_lock names
\* the holder, and every step that locks the cards waits for it.
MemDeckIds == 1..2
MemCardIds == 3..4
\* the identifiers callers pass: those of the stored cards and a fresh one
MemCardArgs == 3..5
ReviewTimes == 0..1

MemCard(id, deck_id) ==
    [id |-> id, deck_id |-> deck_id, suspended |-> FALSE, ver |-> 0]

\* a repository that earlier calls have filled: two decks, up to two cards,
\* each in one of the decks, and for each card no review or one review
InitMemRepo ==
    /\ InitStore
    /\ primary = MissingFile
    /\ SchedIdle
    /\ FiltIdle /\ QueueIdle /\ FrontIdle
    /\ m_decks = [d \in MemDeckIds |->
                    [id |-> d, name |-> IF d = 1 THEN "a" ELSE "b"]]
    /\ \E ids \in SUBSET MemCardIds : \E dk \in [ids -> MemDeckIds] :
          m_cards = [c \in ids |-> MemCard(c, dk[c])]
    /\ \E rs \in SUBSET DOMAIN m_cards :
          m_reviews = [c \in rs |->
                         <<[id |-> 10 + c, card_id |-> c, reviewed_at |-> 1]>>]
    /\ m_pc = [p \in Procs |-> "idle"]
    /\ m_op = [p \in Procs |-> <<>>]
    /\ m_res = [p \in Procs |-> <<>>]
    /\ m_next = 5
    /\ m_lock = 0
    /\ m_calls = 0

\* a call begins
MemCall(p) ==
    /\ m_pc[p] = "idle"
    /\ m_calls' = m_calls + 1

\* a call goes on to its next critical section
MemGoOn(p, next, o) ==
    /\ m_pc' = [m_pc EXCEPT ![p] = next]
    /\ m_op' = [m_op EXCEPT ![p] = <<o>>]
    /\ UNCHANGED m_res

\* a call returns
MemRet(p, kind, arg, result) ==
    /\ m_pc' = [m_pc EXCEPT ![p] = "idle"]
    /\ m_op' = [m_op EXCEPT ![p] = <<>>]
    /\ m_res' = [m_res EXCEPT
                    ![p] = Append(@, [kind |-> kind, arg |-> arg,
                                      result |-> result])]

MemRest == <<storeVars, schedVars, filtVars, queueVars, frontVars>>

\* memory.rs lines 31-37
MemGetDeck(p, id) ==
    /\ MemCall(p)
    /\ MemRet(p, "get_deck", id, get_deck(m_decks, id))
    /\ UNCHANGED <<MemRest, m_decks, m_cards, m_reviews, m_lock, m_next>>

\* memory.rs lines 44-47: decks.write().remove(&id), the lock released at
\* the end of the statement
MemDeleteDeck(p, id) ==
    /\ MemCall(p)
    /\ IF id \notin DOMAIN m_decks
       THEN /\ MemRet(p, "delete_deck", id, Err("NotFound"))
            /\ UNCHANGED m_decks
       ELSE /\ m_decks' = Restrict(m_decks, DOMAIN m_decks \ {id})
            /\ MemGoOn(p, "dd_cards", [kind |-> "delete_deck", id |-> id,
                                       ids |-> {}])
    /\ UNCHANGED <<MemRest, m_cards, m_reviews, m_lock, m_next>>

\* memory.rs lines 48-53: cards.write() is taken and the ids of the deck's
\* cards are collected
MemDeleteDeckIds(p) ==
    /\ m_pc[p] = "dd_cards"
    /\ m_lock = 0
    /\ m_lock' = p
    /\ LET o == m_op[p][1]
       IN MemGoOn(p, "dd_loop",
                  [o EXCEPT !.ids = {c \in DOMAIN m_cards :
                                        m_cards[c].deck_id = o.id}])
    /\ UNCHANGED <<MemRest, m_decks, m_cards, m_reviews, m_next, m_calls>>

\* memory.rs lines 54-58: one turn of the loop, or its end and the return.
\* No caller can read the cards between cards.remove and reviews.remove, so
\* the two are one step.
MemDeleteDeckLoop(p) ==
    /\ m_pc[p] = "dd_loop"
    /\ LET o == m_op[p][1]
       IN IF o.ids = {}
          THEN /\ m_lock' = 0
               /\ MemRet(p, "delete_deck", o.id, Ok(<<>>))
               /\ UNCHANGED <<m_cards, m_reviews>>
          ELSE \E cid \in o.ids :
                  /\ m_cards' = Restrict(m_cards, DOMAIN m_cards \ {cid})
                  /\ m_reviews' = Restrict(m_reviews,
                                           DOMAIN m_reviews \ {cid})
                  /\ MemGoOn(p, "dd_loop", [o EXCEPT !.ids = @ \ {cid}])
                  /\ UNCHANGED m_lock
    /\ UNCHANGED <<MemRest, m_decks, m_next, m_calls>>

\* memory.rs lines 69-74: the deck is looked up under decks.read() and the
\* card is built
MemAddCard(p, deck_id) ==
    /\ MemCall(p)
    /\ IF deck_id \notin DOMAIN m_decks
       THEN /\ MemRet(p, "add_card", deck_id, Err("NotFound"))
            /\ UNCHANGED m_next
       ELSE /\ MemGoOn(p, "ac_insert", [kind |-> "add_card", id |-> m_next,
                                        deck_id |-> deck_id])
            /\ m_next' = m_next + 1
    /\ UNCHANGED <<MemRest, m_decks, m_cards, m_reviews, m_lock>>

\* memory.rs lines 75-76: the card is inserted under cards.write()
MemAddCardInsert(p) ==
    /\ m_pc[p] = "ac_insert"
    /\ m_lock = 0
    /\ LET o == m_op[p][1]
           card == MemCard(o.id, o.deck_id)
       IN /\ m_cards' = Put(m_cards, o.id, card)
          /\ MemRet(p, "add_card", o.deck_id, Ok(card))
    /\ UNCHANGED <<MemRest, m_decks, m_reviews, m_lock, m_next, m_calls>>

\* memory.rs lines 79-85
MemGetCard(p, id) ==
    /\ MemCall(p)
    /\ m_lock = 0
    /\ MemRet(p, "get_card", id, get_card(m_cards, id))
    /\ UNCHANGED <<MemRest, m_decks, m_cards, m_reviews, m_lock, m_next>>

\* memory.rs lines 87-94, of a repository that iterates in the order `seed'
MemListCards(p, deck_id, seed) ==
    /\ MemCall(p)
    /\ m_lock = 0
    /\ MemRet(p, "list_cards", deck_id,
              Ok(list_cards(m_cards, seed, Some(deck_id))))
    /\ UNCHANGED <<MemRest, m_decks, m_cards, m_reviews, m_lock, m_next>>

\* memory.rs lines 129-136
MemListReviews(p, card_id) ==
    /\ MemCall(p)
    /\ MemRet(p, "list_reviews_for_card", card_id,
              Ok(list_reviews_for_card(m_reviews, card_id)))
    /\ UNCHANGED <<MemRest, m_decks, m_cards, m_reviews, m_lock, m_next>>

\* the cards a caller passes to MemoryRepo::update_card
MemCardInputs == [id : MemCardArgs, deck_id : MemDeckIds, suspended : {TRUE},
                  ver : {MaxVer}]

\* memory.rs lines 96-103
MemUpdateCard(p, card) ==
    /\ MemCall(p)
    /\ m_lock = 0
    /\ IF card.id \notin DOMAIN m_cards
       THEN /\ MemRet(p, "update_card", card.id, Err("NotFound"))
            /\ UNCHANGED m_cards
       ELSE /\ m_cards' = Put(m_cards, card.id, card)
            /\ MemRet(p, "update_card", card.id, Ok(card))
    /\ UNCHANGED <<MemRest, m_decks, m_reviews, m_lock, m_next>>

\* memory.rs lines 106-109: cards.write().remove(&id), the lock released at
\* the end of the statement
MemDeleteCard(p, id) ==
    /\ MemCall(p)
    /\ m_lock = 0
    /\ IF id \notin DOMAIN m_cards
       THEN /\ MemRet(p, "delete_card", id, Err("NotFound"))
            /\ UNCHANGED m_cards
       ELSE /\ m_cards' = Restrict(m_cards, DOMAIN m_cards \ {id})
            /\ MemGoOn(p, "dc_reviews", [kind |-> "delete_card", id |-> id])
    /\ UNCHANGED <<MemRest, m_decks, m_reviews, m_lock, m_next>>

\* memory.rs lines 110-111: reviews.write().remove(&id)
MemDeleteCardReviews(p) ==
    /\ m_pc[p] = "dc_reviews"
    /\ LET o == m_op[p][1]
       IN /\ m_reviews' = Restrict(m_reviews, DOMAIN m_reviews \ {o.id})
          /\ MemRet(p, "delete_card", o.id, Ok(<<>>))
    /\ UNCHANGED <<MemRest, m_decks, m_cards, m_lock, m_next, m_calls>>

\* memory.rs lines 114-121
MemSetSuspended(p, id, suspended) ==
    /\ MemCall(p)
    /\ m_lock = 0
    /\ IF id \notin DOMAIN m_cards
       THEN /\ MemRet(p, "set_suspended", id, Err("NotFound"))
            /\ UNCHANGED m_cards
       ELSE /\ m_cards' = [m_cards EXCEPT ![id].suspended = suspended]
            /\ MemRet(p, "set_suspended", id, Ok(<<>>))
    /\ UNCHANGED <<MemRest, m_decks, m_reviews, m_lock, m_next>>

\* the review a caller passes: a fresh id, any card id, any time
MemReview(card_id, t) ==
    [id |-> 20 + m_calls, card_id |-> card_id, reviewed_at |-> t]

\* memory.rs lines 123-127: entry(card_id).or_default().push(review)
MemInsertReview(p, review) ==
    /\ MemCall(p)
    /\ m_reviews' = Put(m_reviews, review.card_id,
                        Append(list_reviews_for_card(m_reviews,
                                                     review.card_id),
                               review))
    /\ MemRet(p, "insert_review", review.card_id, Ok(<<>>))
    /\ UNCHANGED <<MemRest, m_decks, m_cards, m_lock, m_next>>

\* one caller, every operation of the repository
NextMemOps ==
    \/ /\ m_calls < MaxMemSeqOps
       /\ \/ \E id \in MemDeckIds : MemDeleteDeck(1, id)
          \/ \E id \in MemDeckIds : MemAddCard(1, id)
          \/ \E id \in MemDeckIds : MemGetDeck(1, id)
          \/ \E id \in MemCardArgs : MemGetCard(1, id)
          \/ \E id \in MemDeckIds, seed \in Seeds : MemListCards(1, id, seed)
          \/ \E id \in MemCardArgs : MemListReviews(1, id)
          \/ \E card \in MemCardInputs : MemUpdateCard(1, card)
          \/ \E id \in MemCardArgs : MemDeleteCard(1, id)
          \/ \E id \in MemCardArgs, b \in BOOLEAN : MemSetSuspended(1, id, b)
          \/ \E id \in MemCardArgs, t \in ReviewTimes :
                MemInsertReview(1, MemReview(id, t))
    \/ MemDeleteDeckIds(1)
    \/ MemDeleteDeckLoop(1)
    \/ MemAddCardInsert(1)
    \/ MemDeleteCardReviews(1)

SpecMemOps == InitMemRepo /\ [][NextMemOps]_vars

\* concurrent callers that delete decks, add cards and read
NextMemRace ==
    \/ \E p \in Procs :
          /\ m_calls < MaxMemOps
          /\ \/ \E id \in MemDeckIds : MemDeleteDeck(p, id)
             \/ \E id \in MemDeckIds : MemAddCard(p, id)
             \/ \E id \in MemDeckIds : MemGetDeck(p, id)
             \/ \E id \in MemCardArgs : MemGetCard(p, id)
             \/ \E id \in MemDeckIds, seed \in Seeds :
                   MemListCards(p, id, seed)
             \/ \E id \in MemCardArgs : MemListReviews(p, id)
    \/ \E p \in Procs : MemDeleteDeckIds(p)
    \/ \E p \in Procs : MemDeleteDeckLoop(p)
    \/ \E p \in Procs : MemAddCardInsert(p)

SpecMemRace == InitMemRepo /\ [][NextMemRace]_vars

\* ---- the locks of MemoryRepo ---------------------------------------------
\* decks, cards and reviews are three parking_lot RwLocks.  A guard taken
\* inside one statement is dropped at its end: taking the lock, the
\* statement and the release are one step, which waits until the lock is
\* free.  m_lock names the holder of each lock that is held from one step to
\* the next, 0 for none.  A caller that has invoked an operation is at the
\* operation's first statement.
LockNames == {"decks", "cards", "reviews"}
Free(l) == m_lock[l] = 0

LockOps ==
    [kind : {"delete_deck"}, id : MemDeckIds]
    \cup [kind : {"delete_card", "set_suspended", "insert_review"},
          id : MemCardArgs]

FirstStep(kind) ==
    CASE kind = "delete_deck" -> "dd_decks"
      [] kind = "delete_card" -> "dc_cards"
      [] kind = "set_suspended" -> "ss_cards"
      [] kind = "insert_review" -> "ir_reviews"

InitLocks ==
    /\ InitStore
    /\ primary = MissingFile
    /\ SchedIdle
    /\ FiltIdle /\ QueueIdle /\ FrontIdle
    /\ m_decks = [d \in MemDeckIds |->
                    [id |-> d, name |-> IF d = 1 THEN "a" ELSE "b"]]
    /\ \E ids \in SUBSET MemCardIds : \E dk \in [ids -> MemDeckIds] :
          m_cards = [c \in ids |-> MemCard(c, dk[c])]
    /\ \E rs \in SUBSET DOMAIN m_cards :
          m_reviews = [c \in rs |->
                         <<[id |-> 10 + c, card_id |-> c, reviewed_at |-> 1]>>]
    /\ m_pc = [p \in Procs |-> "idle"]
    /\ m_op = [p \in Procs |-> <<>>]
    /\ m_res = [p \in Procs |-> <<>>]
    /\ m_next = 5
    /\ m_lock = [l \in LockNames |-> 0]
    /\ m_calls = 0

\* a caller invokes an operation
LkInvoke(p, o) ==
    /\ MemCall(p)
    /\ m_calls < MaxLockOps
    /\ MemGoOn(p, FirstStep(o.kind), [kind |-> o.kind, id |-> o.id,
                                      ids |-> {}])
    /\ UNCHANGED <<MemRest, m_decks, m_cards, m_reviews, m_lock, m_next>>

\* memory.rs lines 44-47: decks.write().remove(&id)
LkDeleteDeck(p) ==
    /\ m_pc[p] = "dd_decks"
    /\ Free("decks")
    /\ LET o == m_op[p][1]
       IN IF o.id \notin DOMAIN m_decks
          THEN /\ MemRet(p, "delete_deck", o.id, Err("NotFound"))
               /\ UNCHANGED m_decks
          ELSE /\ m_decks' = Restrict(m_decks, DOMAIN m_decks \ {o.id})
               /\ MemGoOn(p, "dd_cards", o)
    /\ UNCHANGED <<MemRest, m_cards, m_reviews, m_lock, m_next, m_calls>>

\* lines 48-53: let mut cards = self.cards.write(), held to the return
LkDeleteDeckCards(p) ==
    /\ m_pc[p] = "dd_cards"
    /\ Free("cards")
    /\ m_lock' = [m_lock EXCEPT !["cards"] = p]
    /\ LET o == m_op[p][1]
       IN MemGoOn(p, "dd_loop",
                  [o EXCEPT !.ids = {c \in DOMAIN m_cards :
                                        m_cards[c].deck_id = o.id}])
    /\ UNCHANGED <<MemRest, m_decks, m_cards, m_reviews, m_next, m_calls>>

\* lines 54-58: a turn of the loop takes reviews.write() while cards is
\* held; after the last turn cards is dropped
LkDeleteDeckLoop(p) ==
    /\ m_pc[p] = "dd_loop"
    /\ LET o == m_op[p][1]
       IN IF o.ids = {}
          THEN /\ m_lock' = [m_lock EXCEPT !["cards"] = 0]
               /\ MemRet(p, "delete_deck", o.id, Ok(<<>>))
               /\ UNCHANGED <<m_cards, m_reviews>>
          ELSE /\ Free("reviews")
               /\ \E cid \in o.ids :
                     /\ m_cards' = Restrict(m_cards, DOMAIN m_cards \ {cid})
                     /\ m_reviews' = Restrict(m_reviews,
                                              DOMAIN m_reviews \ {cid})
                     /\ MemGoOn(p, "dd_loop", [o EXCEPT !.ids = @ \ {cid}])
               /\ UNCHANGED m_lock
    /\ UNCHANGED <<MemRest, m_decks, m_next, m_calls>>

\* lines 106-109: cards.write().remove(&id)
LkDeleteCard(p) ==
    /\ m_pc[p] = "dc_cards"
    /\ Free("cards")
    /\ LET o == m_op[p][1]
       IN IF o.id \notin DOMAIN m_cards
          THEN /\ MemRet(p, "delete_card", o.id, Err("NotFound"))
               /\ UNCHANGED m_cards
          ELSE /\ m_cards' = Restrict(m_cards, DOMAIN m_cards \ {o.id})
               /\ MemGoOn(p, "dc_reviews", o)
    /\ UNCHANGED <<MemRest, m_decks, m_reviews, m_lock, m_next, m_calls>>

\* lines 110-111: reviews.write().remove(&id)
LkDeleteCardReviews(p) ==
    /\ m_pc[p] = "dc_reviews"
    /\ Free("reviews")
    /\ LET o == m_op[p][1]
       IN /\ m_reviews' = Restrict(m_reviews, DOMAIN m_reviews \ {o.id})
          /\ MemRet(p, "delete_card", o.id, Ok(<<>>))
    /\ UNCHANGED <<MemRest, m_decks, m_cards, m_lock, m_next, m_calls>>

\* lines 114-121: cards.write() for the whole body
LkSetSuspended(p) ==
    /\ m_pc[p] = "ss_cards"
    /\ Free("cards")
    /\ LET o == m_op[p][1]
       IN IF o.id \notin DOMAIN m_cards
          THEN /\ MemRet(p, "set_suspended", o.id, Err("NotFound"))
               /\ UNCHANGED m_cards
          ELSE /\ m_cards' = [m_cards EXCEPT ![o.id].suspended = TRUE]
               /\ MemRet(p, "set_suspended", o.id, Ok(<<>>))
    /\ UNCHANGED <<MemRest, m_decks, m_reviews, m_lock, m_next, m_calls>>

\* variant: insert_review holds reviews.write() and then looks the card up
\* under cards.read()
LkInsertReview_m(p) ==
    /\ \/ /\ m_pc[p] = "ir_reviews"
          /\ Free("reviews")
          /\ m_lock' = [m_lock EXCEPT !["reviews"] = p]
          /\ MemGoOn(p, "ir_cards", m_op[p][1])
          /\ UNCHANGED m_reviews
       \/ /\ m_pc[p] = "ir_cards"
          /\ Free("cards")
          /\ m_lock' = [m_lock EXCEPT !["reviews"] = 0]
          /\ LET o == m_op[p][1]
             IN /\ m_reviews' = Put(m_reviews, o.id,
                                    Append(list_reviews_for_card(m_reviews,
                                                                 o.id),
                                           MemReview(o.id, 1)))
                /\ MemRet(p, "insert_review", o.id, Ok(<<>>))
    /\ UNCHANGED <<MemRest, m_decks, m_cards, m_next, m_calls>>

\* lines 123-127: reviews.write() for the whole body
LkInsertReview(p) ==
    /\ m_pc[p] = "ir_reviews"
    /\ Free("reviews")
    /\ LET o == m_op[p][1]
       IN /\ m_reviews' = Put(m_reviews, o.id,
                              Append(list_reviews_for_card(m_reviews, o.id),
                                     MemReview(o.id, 1)))
          /\ MemRet(p, "insert_review", o.id, Ok(<<>>))
    /\ UNCHANGED <<MemRest, m_decks, m_cards, m_lock, m_next, m_calls>>

\* the next step of the operation that p runs
LkStep(p) ==
    \/ LkDeleteDeck(p)
    \/ LkDeleteDeckCards(p)
    \/ LkDeleteDeckLoop(p)
    \/ LkDeleteCard(p)
    \/ LkDeleteCardReviews(p)
    \/ LkSetSuspended(p)
    \/ LkInsertReview(p)

NextLocks ==
    \/ \E p \in Procs, o \in LockOps : LkInvoke(p, o)
    \/ \E p \in Procs : LkStep(p)

SpecLocks == InitLocks /\ [][NextLocks]_vars

\* every caller runs on a thread of the runtime, and parking_lot hands a
\* lock that is released again and again to each waiter in the end
SpecLocksFair == SpecLocks /\ \A p \in Procs : SF_vars(LkStep(p))

\* ---- the HTTP handlers (flashmaster-app/src/api) -------------------------
\* The server holds the Arc<dyn Repository> that open_repo built: a JsonStore
\* or a SqliteRepo. Every await of a Repository call is one step of a
\* handler, and one request is served at a time. What the environment does
\* to the I/O of a call is the argument io of the step.
StoreKinds == {"json", "sqlite"}

\* "fail": the I/O of the call fails before anything is written;
\* "fail_late": write_with_backup fails after tmp.persist(path), in the
\* writing or the rotation of the backup (JsonStore only; for SqliteRepo
\* any failure is a failed statement)
IoOutcomes == {"ok", "fail", "fail_late"}
ReadIo == {"ok", "fail"}

\* axum::http::StatusCode
OK == 200
NO_CONTENT == 204
BAD_REQUEST == 400
INTERNAL_SERVER_ERROR == 500

ApiCardIds == 1..2
ApiDecks == [d \in {1} |-> [id |-> d, name |-> "a"]]

\* Card::new, models.rs lines 78-95, in deck 1
ApiCard(id) ==
    [id |-> id, deck_id |-> 1, suspended |-> FALSE, reps |-> 0,
     interval_days |-> 0, ef |-> EF_DEFAULT, last_grade |-> "None",
     due_at |-> Epoch, last_reviewed_at |-> NoTime, created_at |-> Epoch]

\* the repository as the operations see it
ApiRepo == [cards |-> a_cards, reviews |-> a_reviews, file |-> a_file]

\* JsonStore::save, lib.rs lines 111-125 with write_with_backup 164-190:
\* every error becomes CoreError::Storage("io")
json_save(st, io) ==
    LET written_index == [cards |-> st.cards, reviews |-> st.reviews]
    IN CASE io = "ok" ->
              [result |-> Ok(<<>>), st |-> [st EXCEPT !.file = written_index]]
         [] io = "fail" ->
              [result |-> Err("Storage"), st |-> st]
         [] io = "fail_late" ->
              [result |-> Err("Storage"),
               st |-> [st EXCEPT !.file = written_index]]

\* get_card: lib.rs 274-277 (no I/O), flashmaster-sqlite/src/lib.rs 238-250
repo_get_card(kind, st, id, io) ==
    IF kind = "sqlite" /\ io # "ok" THEN Err("Storage")
    ELSE get_card(st.cards, id)

\* get_deck: lib.rs 223-226, flashmaster-sqlite/src/lib.rs 119-131
repo_get_deck(kind, ds, id, io) ==
    IF kind = "sqlite" /\ io # "ok" THEN Err("Storage")
    ELSE get_deck(ds, id)

\* list_decks: lib.rs 228-231, flashmaster-sqlite/src/lib.rs 133-147
repo_list_decks(kind, ds, io) ==
    IF kind = "sqlite" /\ io # "ok" THEN Err("Storage")
    ELSE Ok(Values(ds, 0))

\* list_cards: lib.rs 279-286, flashmaster-sqlite/src/lib.rs 252-278
repo_list_cards(kind, st, deck_id, io) ==
    IF kind = "sqlite" /\ io # "ok" THEN Err("Storage")
    ELSE Ok(list_cards(st.cards, 0, deck_id))

\* update_card: lib.rs 288-298, flashmaster-sqlite/src/lib.rs 280-309
repo_update_card(kind, st, card, io) ==
    LET put == [st EXCEPT !.cards = Put(@, card.id, card)]
    IN IF kind = "json"
       THEN IF card.id \notin DOMAIN st.cards
            THEN [result |-> Err("NotFound"), st |-> st]
            ELSE LET sv == json_save(put, io)
                 IN [result |-> IF sv.result.ok THEN Ok(card) ELSE sv.result,
                     st |-> sv.st]
       ELSE IF io # "ok" THEN [result |-> Err("Storage"), st |-> st]
            ELSE IF card.id \notin DOMAIN st.cards
            THEN [result |-> Err("NotFound"), st |-> st]
            ELSE [result |-> Ok(card), st |-> put]

\* insert_review: lib.rs 322-328 (push, then save),
\* flashmaster-sqlite/src/lib.rs 350-365
repo_insert_review(kind, st, review, io) ==
    LET pushed == [st EXCEPT !.reviews =
                      Put(@, review.card_id,
                          Append(list_reviews_for_card(@, review.card_id),
                                 review))]
    IN IF kind = "json" THEN json_save(pushed, io)
       ELSE IF io # "ok" THEN [result |-> Err("Storage"), st |-> st]
            ELSE [result |-> Ok(<<>>), st |-> pushed]

\* dto.rs lines 30-37; the texts a request may carry
GradeTexts == {"H", "2", "easy", "4"}
to_lowercase(s) == IF s = "H" THEN "h" ELSE s
parse_grade(s) ==
    LET l == to_lowercase(s)
    IN IF l \in {"1", "h", "hard"} THEN Some("Hard")
       ELSE IF l \in {"2", "m", "med", "medium"} THEN Some("Medium")
       ELSE IF l \in {"3", "e", "easy"} THEN Some("Easy")
       ELSE None

\* the ?deck= selectors: the id of deck 1, an id of no deck, names
ApiSels == {[uuid |-> Some(1), text |-> "id-1"],
            [uuid |-> Some(2), text |-> "id-2"],
            [uuid |-> None, text |-> "A"],
            [uuid |-> None, text |-> "b"]}

\* server.rs lines 24-33; uuid is Uuid::parse_str(sel).ok()
api_resolve_deck(kind, ds, sel, io_get, io_list) ==
    LET got == IF sel.uuid = None THEN Err("not a uuid")
               ELSE repo_get_deck(kind, ds, sel.uuid[1], io_get)
        listed == repo_list_decks(kind, ds, io_list)
    IN IF got.ok THEN got
       ELSE IF ~listed.ok THEN listed
       ELSE LET hits == {i \in 1..Len(listed.value) :
                           eq_ignore_ascii_case(listed.value[i].name,
                                                sel.text)}
            IN IF hits = {} THEN Err("deck not found")
               ELSE Ok(listed.value[CHOOSE i \in hits :
                                       \A j \in hits : i <= j])

\* Utc::now() of the request being served
ApiNow == Instant(Len(a_log) + 1, 0)

ApiRest == <<storeVars, schedVars, filtVars, queueVars, memVars, concVars,
             tuiVars, statVars>>

InitApi ==
    /\ InitStore
    /\ primary = MissingFile
    /\ SchedIdle /\ FiltIdle /\ QueueIdle /\ MemIdle /\ ConcIdle /\ TuiNew
    /\ StatsIdle
    /\ a_store \in StoreKinds
    /\ a_cards = [c \in {1} |-> ApiCard(c)]
    /\ a_reviews = EmptyMap
    /\ a_file = [cards |-> a_cards, reviews |-> a_reviews]
    /\ a_pc = "idle"
    /\ a_req = <<>>
    /\ a_resp = <<>>
    /\ a_log = <<>>

\* a request arrives
ApiBegin ==
    /\ a_pc = "idle"
    /\ Len(a_log) < MaxApiReqs

\* the handler returns: the failing call and its error, or "none"
ApiEnd(handler, site, err, code, body) ==
    /\ a_pc' = "idle"
    /\ a_req' = <<>>
    /\ a_resp' = body
    /\ a_log' = Append(a_log, [handler |-> handler, site |-> site,
                               err |-> err, status |-> code])

\* the repository after a call
ApiStore(st) ==
    /\ a_cards' = st.cards
    /\ a_reviews' = st.reviews
    /\ a_file' = st.file

\* GET /decks, routes.rs lines 26-30 (one deck: sort_by_key changes nothing)
ApiListDecks(io) ==
    /\ ApiBegin
    /\ LET r == repo_list_decks(a_store, ApiDecks, io)
       IN IF r.ok
          THEN ApiEnd("list_decks", "none", "none", OK, r.value)
          ELSE ApiEnd("list_decks", "list_decks", r.err,
                      INTERNAL_SERVER_ERROR, <<>>)
    /\ UNCHANGED <<ApiRest, a_store, a_cards, a_reviews, a_file>>

\* GET /due, routes.rs lines 32-54
ApiDueCards(sel, include_new, io_get, io_list, io_cards) ==
    /\ ApiBegin
    /\ LET d == IF sel = None THEN Ok(<<>>)
                ELSE api_resolve_deck(a_store, ApiDecks, sel[1], io_get,
                                      io_list)
           deck_id == IF sel = None THEN None ELSE Some(d.value.id)
           r == repo_list_cards(a_store, ApiRepo, deck_id, io_cards)
       IN IF ~d.ok
          THEN ApiEnd("due_cards", "resolve_deck", d.err, BAD_REQUEST, <<>>)
          ELSE IF ~r.ok
          THEN ApiEnd("due_cards", "list_cards", r.err,
                      INTERNAL_SERVER_ERROR, <<>>)
          ELSE ApiEnd("due_cards", "none", "none", OK,
                      due_cards(a_cards, 0, deck_id, include_new, None,
                                None, ApiNow))
    /\ UNCHANGED <<ApiRest, a_store, a_cards, a_reviews, a_file>>

\* POST /review, routes.rs lines 57-59: get_card, parse_grade, apply_grade
ApiPostReview(card_id, text, io) ==
    /\ ApiBegin
    /\ LET r == repo_get_card(a_store, ApiRepo, card_id, io)
           g == parse_grade(text)
       IN IF ~r.ok
          THEN ApiEnd("post_review", "get_card", r.err, BAD_REQUEST, <<>>)
          ELSE IF g = None
          THEN ApiEnd("post_review", "parse_grade", "none", BAD_REQUEST,
                      <<>>)
          ELSE /\ a_pc' = "update"
               /\ a_req' = <<apply_grade(r.value, g[1], ApiNow)>>
               /\ UNCHANGED <<a_resp, a_log>>
    /\ UNCHANGED <<ApiRest, a_store, a_cards, a_reviews, a_file>>

\* routes.rs line 60: update_card(&out.updated_card)
ApiPostReviewUpdate(io) ==
    /\ a_pc = "update"
    /\ LET r == repo_update_card(a_store, ApiRepo, a_req[1].updated_card, io)
       IN /\ ApiStore(r.st)
          /\ IF r.result.ok
             THEN /\ a_pc' = "insert"
                  /\ UNCHANGED <<a_req, a_resp, a_log>>
             ELSE ApiEnd("post_review", "update_card", r.result.err,
                         INTERNAL_SERVER_ERROR, <<>>)
    /\ UNCHANGED <<ApiRest, a_store>>

\* routes.rs lines 61-62: insert_review(&out.review), then NO_CONTENT
ApiPostReviewInsert(io) ==
    /\ a_pc = "insert"
    /\ LET r == repo_insert_review(a_store, ApiRepo, a_req[1].review, io)
       IN /\ ApiStore(r.st)
          /\ IF r.result.ok
             THEN ApiEnd("post_review", "none", "none", NO_CONTENT, <<>>)
             ELSE ApiEnd("post_review", "insert_review", r.result.err,
                         INTERNAL_SERVER_ERROR, <<>>)
    /\ UNCHANGED <<ApiRest, a_store>>

NextApi ==
    \/ \E io \in ReadIo : ApiListDecks(io)
    \/ \E sel \in {None} \cup {Some(s) : s \in ApiSels},
          include_new \in {None, Some(TRUE)},
          io_get, io_list, io_cards \in ReadIo :
          ApiDueCards(sel, include_new, io_get, io_list, io_cards)
    \/ \E card_id \in ApiCardIds, text \in GradeTexts, io \in ReadIo :
          ApiPostReview(card_id, text, io)
    \/ \E io \in IoOutcomes : ApiPostReviewUpdate(io)
    \/ \E io \in IoOutcomes : ApiPostReviewInsert(io)

SpecApi == InitApi /\ [][NextApi]_vars

\* ---- concurrent POST /review ---------------------------------------------
\* axum serves the requests concurrently: the handlers of two requests
\* interleave at each .await of post_review (routes.rs lines 56-63).  Each
\* request p is served once.

\* Utc::now() inside apply_grade: later requests read a later clock
ConcNow == Instant(1 + Cardinality({q \in Procs : c_pc[q] # "idle"}), 0)

ConcRest == <<storeVars, schedVars, filtVars, queueVars, memVars, tuiVars,
              statVars, a_store, a_pc, a_req, a_resp, a_log>>

\* the handler of request p returns
ConcEnd(p, code) ==
    /\ c_pc' = [c_pc EXCEPT ![p] = "done"]
    /\ c_res' = [c_res EXCEPT ![p] = code]

\* routes.rs lines 57-59: get_card, parse_grade, apply_grade
ConcPostReview(p, card_id, text, io) ==
    /\ c_pc[p] = "idle"
    /\ LET r == repo_get_card(a_store, ApiRepo, card_id, io)
           g == parse_grade(text)
       IN IF ~r.ok \/ g = None
          THEN /\ ConcEnd(p, BAD_REQUEST)
               /\ UNCHANGED c_req
          ELSE /\ c_pc' = [c_pc EXCEPT ![p] = "update"]
               /\ c_req' = [c_req EXCEPT ![p] =
                              <<[card_id |-> card_id, grade |-> g[1],
                                 at |-> ConcNow,
                                 out |-> apply_grade(r.value, g[1],
                                                     ConcNow)]>>]
               /\ UNCHANGED c_res
    /\ UNCHANGED <<ConcRest, a_cards, a_reviews, a_file>>

\* routes.rs line 60: update_card(&out.updated_card)
ConcPostReviewUpdate(p, io) ==
    /\ c_pc[p] = "update"
    /\ LET r == repo_update_card(a_store, ApiRepo,
                                 c_req[p][1].out.updated_card, io)
       IN /\ ApiStore(r.st)
          /\ IF r.result.ok
             THEN /\ c_pc' = [c_pc EXCEPT ![p] = "insert"]
                  /\ UNCHANGED c_res
             ELSE ConcEnd(p, INTERNAL_SERVER_ERROR)
    /\ UNCHANGED <<ConcRest, c_req>>

\* routes.rs lines 61-62: insert_review(&out.review), then NO_CONTENT
ConcPostReviewInsert(p, io) ==
    /\ c_pc[p] = "insert"
    /\ LET r == repo_insert_review(a_store, ApiRepo, c_req[p][1].out.review,
                                   io)
       IN /\ ApiStore(r.st)
          /\ IF r.result.ok
             THEN ConcEnd(p, NO_CONTENT)
             ELSE ConcEnd(p, INTERNAL_SERVER_ERROR)
    /\ UNCHANGED <<ConcRest, c_req>>

NextConc ==
    \/ \E p \in Procs, card_id \in ApiCardIds, text \in GradeTexts,
          io \in ReadIo : ConcPostReview(p, card_id, text, io)
    \/ \E p \in Procs, io \in IoOutcomes : ConcPostReviewUpdate(p, io)
    \/ \E p \in Procs, io \in IoOutcomes : ConcPostReviewInsert(p, io)

SpecConc == InitApi /\ [][NextConc]_vars

\* ---- the terminal front-end (tui/app.rs, tui/inputs.rs) ------------------
\* One thread: every event is handled to its end before the next is read.

\* the terminal events: keys with their modifiers, and one that is no key
TuiEvents == {"q", "Esc", "Up", "k", "Down", "j", "Enter", " ", "1", "h",
              "2", "m", "3", "e", "s", "Ctrl-s", "x", "Resize"}

\* inputs.rs lines 17-37
map_event(ev) ==
    CASE ev \in {"q", "Esc"} -> "Quit"
      [] ev \in {"Up", "k"} -> "Up"
      [] ev \in {"Down", "j"} -> "Down"
      [] ev = "Enter" -> "Enter"
      [] ev = " " -> "ToggleReveal"
      [] ev \in {"1", "h"} -> "GradeHard"
      [] ev \in {"2", "m"} -> "GradeMedium"
      [] ev \in {"3", "e"} -> "GradeEasy"
      [] ev = "s" -> "Skip"
      [] OTHER -> "None"

\* chrono::Utc::now() while an event is handled: a day passes between events
TuiNow == Instant(t_keys + 1, 0)

TuiRest == <<storeVars, schedVars, filtVars, queueVars, memVars, concVars,
             statVars, a_store, a_pc, a_req, a_resp, a_log>>

\* the repositories the terminal is started on: deck 1, the empty deck 2
\* created after it, and any of the two cards
TuiDecks == [d \in {1, 2} |-> [id |-> d, name |-> IF d = 1 THEN "a" ELSE "b"]]
TuiCardSets == {[c \in S |-> ApiCard(c)] : S \in SUBSET ApiCardIds}

InitTui ==
    /\ InitStore
    /\ primary = MissingFile
    /\ SchedIdle /\ FiltIdle /\ QueueIdle /\ MemIdle /\ ConcIdle /\ TuiNew
    /\ StatsIdle
    /\ a_store \in StoreKinds
    /\ a_cards \in TuiCardSets
    /\ a_reviews = EmptyMap
    /\ a_file = [cards |-> a_cards, reviews |-> a_reviews]
    /\ a_pc = "idle"
    /\ a_req = <<>>
    /\ a_resp = <<>>
    /\ a_log = <<>>

\* run, app.rs line 58, with load_decks, lines 33-38: the decks sorted by
\* created_at, which is the order of their ids here
TuiRun(io) ==
    /\ t_pc = "new"
    /\ LET r == repo_list_decks(a_store, TuiDecks, io)
           v == IF r.ok THEN r.value ELSE <<>>
       IN /\ t_decks' = v
          /\ t_sel' = Min({t_sel, Max({Len(v) - 1, 0})})
    /\ t_pc' = "mainloop"
    /\ UNCHANGED <<TuiRest, a_cards, a_reviews, a_file, t_queue, t_idx,
                   t_reveal, t_in_review, t_keys, t_session, t_hist>>

\* mainloop has read an event
TuiRead ==
    /\ t_pc = "mainloop"
    /\ t_keys < MaxTuiKeys
    /\ t_keys' = t_keys + 1

\* Action::Quit, app.rs line 90
TuiQuit ==
    /\ TuiRead
    /\ t_pc' = "returned"
    /\ UNCHANGED <<TuiRest, a_cards, a_reviews, a_file, t_decks, t_sel,
                   t_queue, t_idx, t_reveal, t_in_review, t_session, t_hist>>

\* Action::Up, line 91
TuiUp ==
    /\ TuiRead
    /\ t_sel' = IF ~t_in_review THEN Max({t_sel - 1, 0}) ELSE t_sel
    /\ UNCHANGED <<TuiRest, a_cards, a_reviews, a_file, t_decks, t_queue,
                   t_idx, t_reveal, t_in_review, t_pc, t_session, t_hist>>

\* Action::Down, line 92
TuiDown ==
    /\ TuiRead
    /\ t_sel' = IF ~t_in_review /\ t_sel + 1 < Len(t_decks) THEN t_sel + 1
                ELSE t_sel
    /\ UNCHANGED <<TuiRest, a_cards, a_reviews, a_file, t_decks, t_queue,
                   t_idx, t_reveal, t_in_review, t_pc, t_session, t_hist>>

\* build_queue, app.rs lines 40-55: the new queue
tui_build_queue(io) ==
    IF t_decks = <<>> THEN <<>>
    ELSE LET did == t_decks[t_sel + 1].id
             r == repo_list_cards(a_store, ApiRepo, Some(did), io)
         IN IF r.ok THEN build_queue(a_cards, 0, did, TuiNow) ELSE <<>>

\* Action::Enter, lines 93-100
TuiEnter(io) ==
    /\ TuiRead
    /\ IF ~t_in_review
       THEN /\ t_queue' = tui_build_queue(io)
            /\ t_in_review' = TRUE
            /\ t_idx' = 0
            /\ t_reveal' = FALSE
            /\ t_session' = t_session + 1
       ELSE UNCHANGED <<t_queue, t_in_review, t_idx, t_reveal, t_session>>
    /\ UNCHANGED <<TuiRest, a_cards, a_reviews, a_file, t_decks, t_sel, t_pc,
                   t_hist>>

\* Action::ToggleReveal, line 101
TuiToggleReveal ==
    /\ TuiRead
    /\ t_reveal' = IF t_in_review THEN ~t_reveal ELSE t_reveal
    /\ UNCHANGED <<TuiRest, a_cards, a_reviews, a_file, t_decks, t_sel,
                   t_queue, t_idx, t_in_review, t_pc, t_session, t_hist>>

\* Action::Skip, lines 102-104
TuiSkip ==
    /\ TuiRead
    /\ IF t_in_review /\ t_idx + 1 < Len(t_queue)
       THEN t_idx' = t_idx + 1 /\ t_reveal' = FALSE
       ELSE UNCHANGED <<t_idx, t_reveal>>
    /\ UNCHANGED <<TuiRest, a_cards, a_reviews, a_file, t_decks, t_sel,
                   t_queue, t_in_review, t_pc, t_session, t_hist>>

\* Action::GradeHard | GradeMedium | GradeEasy, lines 105-120
TuiGrade(grade, io_update, io_insert) ==
    /\ TuiRead
    /\ IF t_in_review /\ t_idx < Len(t_queue)
       THEN LET card == t_queue[t_idx + 1]
                graded == apply_grade(card, grade, TuiNow)
                u == repo_update_card(a_store, ApiRepo, graded.updated_card,
                                      io_update)
                i == repo_insert_review(a_store, u.st, graded.review,
                                        io_insert)
            IN /\ ApiStore(i.st)
               /\ t_hist' = Append(t_hist,
                                   [session |-> t_session, pos |-> t_idx,
                                    card_id |-> card.id, grade |-> grade,
                                    update_card |-> ResultKind(u.result),
                                    insert_review |-> ResultKind(i.result)])
               /\ IF t_idx + 1 < Len(t_queue)
                  THEN /\ t_idx' = t_idx + 1
                       /\ t_reveal' = FALSE
                       /\ UNCHANGED t_in_review
                  ELSE /\ t_in_review' = FALSE
                       /\ UNCHANGED <<t_idx, t_reveal>>
       ELSE UNCHANGED <<a_cards, a_reviews, a_file, t_hist, t_idx, t_reveal,
                        t_in_review>>
    /\ UNCHANGED <<TuiRest, t_decks, t_sel, t_queue, t_pc, t_session>>

\* Action::None, line 121
TuiNone ==
    /\ TuiRead
    /\ UNCHANGED <<TuiRest, a_cards, a_reviews, a_file, t_decks, t_sel,
                   t_queue, t_idx, t_reveal, t_in_review, t_pc, t_session,
                   t_hist>>

\* mainloop, lines 86-122: one event, mapped and handled; the I/O of the
\* repository calls of the handler ends in any of its outcomes
TuiKey(ev) ==
    LET action == map_event(ev)
    IN \/ action = "Quit" /\ TuiQuit
       \/ action = "Up" /\ TuiUp
       \/ action = "Down" /\ TuiDown
       \/ action = "Enter" /\ \E io \in ReadIo : TuiEnter(io)
       \/ action = "ToggleReveal" /\ TuiToggleReveal
       \/ action = "Skip" /\ TuiSkip
       \/ /\ action \in {"GradeHard", "GradeMedium", "GradeEasy"}
          /\ \E io_update, io_insert \in IoOutcomes :
                TuiGrade(CASE action = "GradeHard" -> "Hard"
                           [] action = "GradeMedium" -> "Medium"
                           [] action = "GradeEasy" -> "Easy",
                         io_update, io_insert)
       \/ action = "None" /\ TuiNone

NextTui ==
    \/ \E io \in ReadIo : TuiRun(io)
    \/ \E ev \in TuiEvents : TuiKey(ev)

SpecTui == InitTui /\ [][NextTui]_vars

\* ---- the fields of a stored card ----------------------------------------
\* Cards with all the fields of models.rs lines 58-76, graded and suspended
\* through the repository.

\* the cards a repository may hold under the id c
FieldCards(c) ==
    {[ApiCard(c) EXCEPT !.deck_id = f.deck_id, !.suspended = f.suspended,
                        !.created_at = f.created_at]
       @@ [front |-> f.front, back |-> "A", hint |-> f.hint, tags |-> f.tags] :
     f \in [deck_id : {1, 2}, suspended : BOOLEAN,
            created_at : {Epoch, Instant(0, 1)}, front : {"Q1", "Q2"},
            hint : {None, Some("h")}, tags : {<<>>, <<"t1", "t2">>}]}

\* set_suspended: lib.rs 311-320, flashmaster-sqlite/src/lib.rs 336-347
repo_set_suspended(kind, st, id, suspended, io) ==
    LET set == [st EXCEPT !.cards[id].suspended = suspended]
    IN IF kind = "json"
       THEN IF id \notin DOMAIN st.cards
            THEN [result |-> Err("NotFound"), st |-> st]
            ELSE json_save(set, io)
       ELSE IF io # "ok" THEN [result |-> Err("Storage"), st |-> st]
            ELSE IF id \notin DOMAIN st.cards
            THEN [result |-> Err("NotFound"), st |-> st]
            ELSE [result |-> Ok(<<>>), st |-> set]

InitFields ==
    /\ InitStore
    /\ primary = MissingFile
    /\ SchedIdle /\ FiltIdle /\ QueueIdle /\ MemIdle /\ ConcIdle /\ TuiNew
    /\ StatsIdle
    /\ a_store \in StoreKinds
    /\ \E c \in FieldCards(1) : a_cards = [i \in {1} |-> c]
    /\ a_reviews = EmptyMap
    /\ a_file = [cards |-> a_cards, reviews |-> a_reviews]
    /\ a_pc = "idle"
    /\ a_req = <<>>
    /\ a_resp = <<>>
    /\ a_log = <<>>

\* a grading flow that succeeds: get_card, apply_grade, update_card (routes.rs
\* lines 57-60, commands.rs lines 193-194); a_req keeps the outcome
FieldsGrade(id, grade) ==
    /\ ApiBegin
    /\ id \in DOMAIN a_cards
    /\ LET graded == apply_grade(a_cards[id], grade, ApiNow)
           r == repo_update_card(a_store, ApiRepo, graded.updated_card, "ok")
       IN /\ ApiStore(r.st)
          /\ a_req' = <<graded>>
          /\ a_log' = Append(a_log, [handler |-> "grade", site |-> "none",
                                     err |-> "none", status |-> 0])
    /\ UNCHANGED <<ApiRest, a_store, a_pc, a_resp>>

\* set_suspended of the repository, as import_cmd calls it (commands.rs
\* line 276)
FieldsSetSuspended(id, suspended, io) ==
    /\ ApiBegin
    /\ LET r == repo_set_suspended(a_store, ApiRepo, id, suspended, io)
       IN /\ ApiStore(r.st)
          /\ a_log' = Append(a_log, [handler |-> "set_suspended",
                                     site |-> "set_suspended",
                                     err |-> ResultKind(r.result),
                                     status |-> 0])
    /\ UNCHANGED <<ApiRest, a_store, a_pc, a_req, a_resp>>

NextFields ==
    \/ \E id \in ApiCardIds, grade \in Grades : FieldsGrade(id, grade)
    \/ \E id \in ApiCardIds, suspended \in BOOLEAN, io \in IoOutcomes :
          FieldsSetSuspended(id, suspended, io)

SpecFields == InitFields /\ [][NextFields]_vars

\* ---- statistics (flashmaster-core/src/stats.rs) ---------------------------
\* A NaiveDate is its number of days after instant 0.

\* Totals::default()
NoTotals == [total |-> 0, hard |-> 0, medium |-> 0, easy |-> 0]

\* variant: a Hard review is not counted in total
record_m(t, g) ==
    [total |-> IF g = "Hard" THEN t.total ELSE t.total + 1,
     hard |-> IF g = "Hard" THEN t.hard + 1 ELSE t.hard,
     medium |-> IF g = "Medium" THEN t.medium + 1 ELSE t.medium,
     easy |-> IF g = "Easy" THEN t.easy + 1 ELSE t.easy]

\* Totals::record, lines 14-21
record(t, g) ==
    [total |-> t.total + 1,
     hard |-> IF g = "Hard" THEN t.hard + 1 ELSE t.hard,
     medium |-> IF g = "Medium" THEN t.medium + 1 ELSE t.medium,
     easy |-> IF g = "Easy" THEN t.easy + 1 ELSE t.easy]

RECURSIVE Gcd(_, _)
Gcd(a, b) == IF b = 0 THEN a ELSE Gcd(b, a % b)

\* the f32 quotient of two counts n and d > 0 that f32 holds exactly: the
\* fraction in lowest terms
Quotient(n, d) == [num |-> n \div Gcd(n, d), den |-> d \div Gcd(n, d)]

\* Totals::accuracy, lines 22-28
accuracy(t) ==
    IF t.total = 0 THEN Quotient(0, 1)
    ELSE Quotient(t.medium + t.easy, t.total)

\* DateTime<Utc>::date_naive: the time of day is dropped
date_naive(t) == t.day

\* lines 39-43: the loop of summarize over the reviews that are left
RECURSIVE summarize_loop(_, _)
summarize_loop(summary, rs) ==
    IF rs = <<>> THEN summary
    ELSE LET r == Head(rs)
             d == date_naive(r.reviewed_at)
             or_default == IF d \in DOMAIN summary.per_day
                           THEN summary.per_day[d] ELSE NoTotals
         IN summarize_loop(
                [totals |-> record(summary.totals, r.grade),
                 per_day |-> Put(summary.per_day, d,
                                 record(or_default, r.grade))],
                Tail(rs))

\* lines 37-45
summarize(reviews_in) ==
    summarize_loop([totals |-> NoTotals, per_day |-> EmptyMap], reviews_in)

\* lines 51-58: the loop of daily_streak
RECURSIVE streak_loop(_, _, _)
streak_loop(per_day, streak, day) ==
    IF day \in DOMAIN per_day /\ per_day[day].total > 0
    THEN streak_loop(per_day, streak + 1, day - 1)
    ELSE streak

\* variant: the count starts on the day before today
daily_streak_m(reviews_in, today) ==
    streak_loop(summarize(reviews_in).per_day, 0, today - 1)

\* lines 47-60
daily_streak(reviews_in, today) ==
    streak_loop(summarize(reviews_in).per_day, 0, today)

\* line 54: day -= Duration::days(1) panics on the first date chrono holds,
\* -262143-01-01, which is DATE_MIN_DAYS days after instant 0
DATE_MIN_DAYS == 0 - 96465293
daily_streak_panics(reviews_in, today) ==
    /\ daily_streak(reviews_in, today) > 0
    /\ today - daily_streak(reviews_in, today) + 1 = DATE_MIN_DAYS

\* the reviews of the inputs: any grade, at the start or later on a day
StatReviews == [card_id : {1}, grade : Grades,
                reviewed_at : {Instant(d, k) : d \in 0..MaxStatDay,
                                               k \in {0, MaxTick}}]

StatLists == UNION {[1..n -> StatReviews] : n \in 0..MaxStatReviews}

InitStats ==
    /\ InitStore
    /\ primary = MissingFile
    /\ SchedIdle /\ FiltIdle /\ QueueIdle /\ MemIdle
    /\ ApiIdle /\ ConcIdle /\ TuiNew
    /\ s_reviews \in StatLists
    /\ s_today \in 0..(MaxStatDay + 1)
    /\ s_out = <<>>

StatsRest == <<storeVars, schedVars, filtVars, queueVars, memVars, apiVars,
               concVars, tuiVars, s_reviews, s_today>>

\* a call of summarize, and accuracy of its totals
StatsSummarize ==
    /\ s_out = <<>>
    /\ s_out' = <<[fn |-> "summarize", summary |-> summarize(s_reviews),
                   accuracy |-> accuracy(summarize(s_reviews).totals)]>>
    /\ UNCHANGED StatsRest

\* a call of daily_streak
StatsDailyStreak ==
    /\ s_out = <<>>
    /\ s_out' = <<[fn |-> "daily_streak",
                   panics |-> daily_streak_panics(s_reviews, s_today),
                   streak |-> daily_streak(s_reviews, s_today)]>>
    /\ UNCHANGED StatsRest

NextStats == StatsSummarize \/ StatsDailyStreak

SpecStats == InitStats /\ [][NextStats]_vars

\* concurrent callers of one JsonStore within one second of the wall clock;
\* the process may be interrupted and started again
Next ==
    \/ \E keep \in 0..MaxKeep, seed \in Seeds : OpenWith(keep, seed)
    \/ \E p \in Procs : nops < MaxConcOps /\ Invoke(p)
    \/ \E p \in Procs : Continue(p)
    \/ \E p \in Procs : WriteBackup(p, sec)
    \/ Crash

Init == InitStore /\ SchedIdle /\ FiltIdle /\ QueueIdle /\ MemIdle /\ FrontIdle

Spec == Init /\ [][Next]_vars

\* one caller, so operations do not overlap; the store may be dropped and
\* opened again
NextSeq ==
    \/ \E keep \in 0..MaxKeep, seed \in Seeds : OpenWith(keep, seed)
    \/ nops < MaxOps /\ Invoke(1)
    \/ Continue(1)
    \/ \E ts \in 0..MaxSec : WriteBackup(1, ts)
    \/ Close

SpecSeq == Init /\ [][NextSeq]_vars

\* one caller and longer sequences of operations on one open store; the
\* wall clock stays within one second
NextOps ==
    \/ \E seed \in Seeds : OpenWith(InitKeep, seed)
    \/ nops < MaxIdxOps /\ Invoke(1)
    \/ Continue(1)
    \/ WriteBackup(1, sec)

SpecOps == Init /\ [][NextOps]_vars

\* list_cards, lib.rs lines 279-286
ListCards(p, deck_id) == Answer(p, Ok(list_cards(cards, hseed, deck_id)))

\* one caller, the reading operations among the others
Read(p) ==
    \/ \E id \in DeckIds : GetDeck(p, id)
    \/ ListDecks(p)
    \/ \E id \in CardIds : GetCard(p, id)
    \/ \E deck_id \in {None} \cup {Some(d) : d \in DeckIds} :
          ListCards(p, deck_id)
    \/ \E id \in CardIds : ListReviewsForCard(p, id)

NextReads ==
    \/ \E seed \in Seeds : OpenWith(InitKeep, seed)
    \/ nops < MaxIdxOps /\ Invoke(1)
    \/ nops < MaxIdxOps /\ Read(1)
    \/ Continue(1)
    \/ WriteBackup(1, sec)

SpecReads == Init /\ [][NextReads]_vars

\* concurrent callers that create and delete decks and add cards
NextRace ==
    \/ \E seed \in Seeds : OpenWith(InitKeep, seed)
    \/ \E p \in Procs :
          /\ nops < MaxRaceOps
          /\ \/ \E name \in Names : CreateDeck(p, name)
             \/ \E id \in DeckIds : DeleteDeck(p, id)
             \/ \E id \in DeckIds : AddCard(p, id)
    \/ \E p \in Procs : Continue(p)
    \/ \E p \in Procs : WriteBackup(p, sec)

SpecRace == Init /\ [][NextRace]_vars

\* every operation that runs takes its next step: the file I/O completes
SpecRaceFair ==
    SpecRace /\ \A p \in Procs : WF_vars(Continue(p) \/ WriteBackup(p, sec))

\* ========================================================================
\* Properties
\* ========================================================================
IndexNow == Index(State)

\* C1: if the process is interrupted inside write_with_backup and the store
\* is opened again, the open succeeds and the loaded index is the index of
\* the primary file before that write or the index of the snapshot being
\* written.
C1_CrashSafety ==
    [][(status = "closed" /\ status' /= "closed" /\ stopped.how = "crash"
        /\ stopped.writes /= {})
       => /\ status' /= "failed"
          /\ \E w \in stopped.writes :
                IndexNow' \in {IndexOf(w.pre), IndexOf(w.post)}]_vars

\* C2: once operations that ran concurrently have all returned, the primary
\* file holds the latest snapshot taken, which equals the in-memory index.
C2_LaterSnapshotWins ==
    (status = "open" /\ Idle /\ overlapped)
    => /\ primary.kind = "image"
       /\ primary.img.updated_at = updated_at
       /\ IndexOf(primary) = IndexNow

\* C3: when a mutating operation is about to return success, the primary
\* file holds a complete snapshot taken at or after that operation's
\* mutation of the index.
C3_WriteThrough ==
    \A p \in Procs :
        (status = "open" /\ pc[p] = "ret")
        => /\ primary.kind = "image"
           /\ primary.img.updated_at >= op[p].at

\* C4: opening the store again after it was dropped (all operations having
\* run one after the other) succeeds and yields the index the dropped store
\* had: the same decks and cards by id and the same reviews per card in the
\* same order.
C4_RoundTrip ==
    [][(status = "closed" /\ status' /= "closed" /\ stopped.how = "drop")
       => (status' = "open" /\ IndexNow' = stopped.index)]_vars

C4_Witness ==
    /\ status = "open"
    /\ stopped.how = "drop"
    /\ nops = 2
    /\ IndexNow = stopped.index
    /\ \E c \in DOMAIN reviews : Len(reviews[c]) = 2

\* the retention count of the claim: the count passed to open_with, 0 read as 1
C5_K == IF openedOn.keep = 0 THEN 1 ELSE openedOn.keep
C5_Files == backups[CfgDir]
C5_Images == {f.img : f \in C5_Files}
C5_LastK == {written[i].img : i \in (Len(written) - C5_K + 1)..Len(written)}
C5_Seconds == {written[i].name : i \in 1..Len(written)}
\* N > K writes of one store instance have completed
C5_After == status = "open" /\ Idle /\ restarts = 0 /\ Len(written) > C5_K

\* C5 as stated: after N > K writes the backups directory holds exactly K
\* files, the K most recently written snapshots.
C5_ExactlyK ==
    C5_After => (Cardinality(C5_Files) = C5_K /\ C5_Images = C5_LastK)

\* C5 as amended: after N > K writes the backups directory holds at most K
\* files, the most recent snapshot among them; when the N writes took place
\* in N different seconds it holds exactly K files, the K most recently
\* written snapshots.
C5_Rotation ==
    C5_After
    => /\ Cardinality(C5_Files) <= C5_K
       /\ written[Len(written)].img \in C5_Images
       /\ Cardinality(C5_Seconds) = Len(written)
          => (Cardinality(C5_Files) = C5_K /\ C5_Images = C5_LastK)

C5_Witness ==
    /\ C5_After
    /\ C5_K = 2
    /\ Len(written) = 3
    /\ Cardinality(C5_Seconds) = 3
    /\ Cardinality(C5_Files) = 2

\* C6: when open_with returns for a primary file that did not exist, the
\* primary file holds the empty snapshot of version 1, the configured
\* backups directory exists and contains a backup of that snapshot, and it
\* holds no more files than the configured retention count.
C6_FreshOpenBacksUp ==
    [][(status = "opening" /\ status' = "open")
       => /\ primary' = ImageFile(initImg')
          /\ initImg'.version = 1
          /\ initImg'.decks = <<>> /\ initImg'.cards = <<>>
          /\ initImg'.reviews = <<>>
          /\ CfgDir \in dirs'
          /\ \E f \in backups'[CfgDir] : f.img = initImg'
          /\ Cardinality(backups'[CfgDir]) <= max_backups']_vars

\* C7: open_with on a primary file that exists but does not read as an image
\* fails: no store is returned, and the primary file, the existing backups
\* and the index are what they were.
C7_CorruptOpenFails ==
    [][(status = "closed" /\ primary.kind = "corrupt")
       => /\ status' \in {"closed", "failed"}
          /\ primary' = primary
          /\ backups' = backups
          /\ IndexNow' = IndexNow]_vars

C7_Witness ==
    /\ status = "failed"
    /\ primary.kind = "corrupt"
    /\ backups[CfgDir] = {OldBackup}

\* C8: the card's ef and the ef_after of every emitted review stay within
\* [EF_MIN, EF_MAX] under any sequence of grades.
C8_EfClamped ==
    /\ sched_card.ef >= 130 /\ sched_card.ef <= 280
    /\ \A i \in 1..Len(out) : out[i].ef_after >= 130 /\ out[i].ef_after <= 280

\* an Easy grade on a card already at the upper limit
C8_Witness ==
    /\ Len(out) >= 2
    /\ out[Len(out)].grade = "Easy"
    /\ out[Len(out) - 1].ef_after = 280
    /\ sched_card.ef = 280

LastGrade == out[Len(out)].grade
Graded == ngrades' = ngrades + 1

C10_LapseReset ==
    [][(Graded /\ LastGrade' = "Hard")
       => /\ sched_card'.reps = 0
          /\ sched_card'.interval_days = 1
          /\ sched_card'.last_grade = "Hard"]_vars

\* a Hard grade on a card that had reached reps 2 and interval 6
C10_Witness ==
    /\ Len(out) >= 2
    /\ out[Len(out)].grade = "Hard"
    /\ out[Len(out) - 1].grade \in {"Medium", "Easy"}
    /\ out[Len(out) - 1].interval_applied >= 6
    /\ sched_card.reps = 0
    /\ sched_card.interval_days = 1

\* C11: a grade sets ef to clamp(prior ef + delta, 1.3, 2.8) with delta
\* +0.10 for Easy, 0 for Medium, -0.14 for Hard.  In the f32 the code
\* computes, the result is within one f32 spacing of that value; Easy never
\* lowers ef and raises it when it was below the upper limit, Medium leaves
\* it as it is, and Hard never raises it.
C11_EfUpdate ==
    [][Graded
       => LET g == LastGrade'
              d == CASE g = "Easy" -> 10 [] g = "Medium" -> 0 [] g = "Hard" -> 0 - 14
              x == sched_card.ef + d
              D == CASE g = "Easy" -> 53687091 [] g = "Medium" -> 0
                     [] g = "Hard" -> 0 - 75161928
              X == ef_f32 + D
              XC == IF X < 697932186 THEN 697932186
                    ELSE IF X > 1503238554 THEN 1503238554 ELSE X
          IN /\ sched_card'.ef = IF x < 130 THEN 130 ELSE IF x > 280 THEN 280 ELSE x
             /\ ef_f32' - XC <= 128 /\ XC - ef_f32' <= 128
             /\ g = "Easy" => /\ ef_f32' >= ef_f32
                              /\ ef_f32 < EF_MAX_F32 => ef_f32' > ef_f32
             /\ g = "Medium" => ef_f32' = ef_f32
             /\ g = "Hard" => ef_f32' <= ef_f32]_vars

\* Easy, Medium, Hard on a new card: ef goes above 2.5, stays, then drops
C11_Witness ==
    /\ Len(out) = 3
    /\ out[1].grade = "Easy" /\ out[1].ef_after = 260
    /\ out[2].grade = "Medium" /\ out[2].ef_after = 260
    /\ out[3].grade = "Hard" /\ out[3].ef_after = 246
    /\ sched_card.last_reviewed_at = sched_now
    /\ ef_f32 > EF_MIN_F32 /\ ef_f32 < EF_DEFAULT_F32

\* C12: after apply_grade at instant now the card has due_at = now +
\* interval_days days, last_grade = the grade and last_reviewed_at = now;
\* due_at is at least one day after now, and a card with reps >= 1 is
\* Future at now.
C12_DueAfterGrade ==
    [][Graded
       => LET c == sched_card'
              t == sched_now'
          IN /\ c.due_at.day = t.day + c.interval_days
             /\ c.due_at.tick = t.tick
             /\ c.last_grade = LastGrade'
             /\ c.last_reviewed_at = t
             /\ ~Before(c.due_at, Advance(t, 24 * TicksPerHour))
             /\ c.reps >= 1 => due_status(c, t) = "Future"]_vars

\* a Medium grade at a later instant on a card graded before: due 6 days on
C12_Witness ==
    /\ Len(out) = 2
    /\ out[2].grade = "Medium"
    /\ sched_now.tick > 0
    /\ sched_card.reps = 2
    /\ sched_card.due_at = Instant(sched_now.day + 6, sched_now.tick)
    /\ sched_card.last_reviewed_at = sched_now
    /\ due_status(sched_card, sched_now) = "Future"

\* C13: every call of apply_grade emits one Review: its card_id is the
\* card's id, its grade the applied grade, its reviewed_at the card's new
\* last_reviewed_at, its interval_applied the card's new interval_days (at
\* least 1) and its ef_after the card's new ef.
C13_OneReview ==
    [][Graded
       => /\ ~panicked'
          /\ Len(out') = 1
          /\ out'[1].card_id = sched_card.id
          /\ out'[1].grade = sched_card'.last_grade
          /\ out'[1].reviewed_at = sched_card'.last_reviewed_at
          /\ out'[1].interval_applied = sched_card'.interval_days
          /\ out'[1].interval_applied >= 1
          /\ out'[1].ef_after = sched_card'.ef]_vars

\* C14: apply_grade is total: every call returns an updated card and a
\* review.
C14_Total == ~panicked

\* C15: every card reached from a freshly added card by calls of apply_grade
\* has interval_days >= 1 whenever reps >= 1.
C15_IntervalPositive ==
    sched_card.reps >= 1 => sched_card.interval_days >= 1

\* a card graded again after a lapse, and one far into its progression
C15_Witness ==
    /\ ngrades >= 8
    /\ sched_card.reps >= 6
    /\ sched_card.interval_days >= 1
    /\ out[1].interval_applied = sched_card.interval_days

\* C16: at reference time now a card's due status is New when reps = 0,
\* whatever its due_at; otherwise Future when due_at is after now; otherwise
\* Lapsed when now - due_at is at least 24 hours; otherwise DueToday. The
\* status is observed through filter_by_due: a card is in the result for a
\* status exactly when that is its status.
C16_DueStatus ==
    \A s \in DOMAIN f_out : \A i \in 1..Len(f_cards) :
        LET c == f_cards[i]
            late == (f_now.day - c.due_at.day) * 24 * TicksPerHour
                        + (f_now.tick - c.due_at.tick)
            expected ==
                CASE c.reps = 0 -> "New"
                  [] c.reps /= 0 /\ late < 0 -> "Future"
                  [] c.reps /= 0 /\ late >= 24 * TicksPerHour -> "Lapsed"
                  [] OTHER -> "DueToday"
        IN (\E j \in 1..Len(f_out[s]) : f_out[s][j] = c) <=> s = expected

\* all four filters applied to a graded card due exactly now, one exactly 24
\* hours past due and a card never graded that is due later
C16_Witness ==
    /\ DOMAIN f_out = Statuses
    /\ Len(f_cards) = 3
    /\ f_cards[1].reps = 1 /\ f_cards[1].due_at = f_now
    /\ f_cards[2].reps = 1
    /\ f_cards[2].due_at = Instant(f_now.day - 1, f_now.tick)
    /\ f_cards[3].reps = 0 /\ Before(f_now, f_cards[3].due_at)
    /\ f_out["DueToday"] = <<f_cards[1]>>
    /\ f_out["Lapsed"] = <<f_cards[2]>>
    /\ f_out["New"] = <<f_cards[3]>>
    /\ f_out["Future"] = <<>>

\* C17: for one now and one card sequence the results of filter_by_due for
\* New, Future, Lapsed and DueToday partition the input: no card is in two
\* results, every card is in one of the four, once, and each result is a
\* subsequence of the input in the input's order (the card at position i of
\* the input has id i).
C17_Partition ==
    /\ \A s \in DOMAIN f_out :
          /\ \A j \in 1..Len(f_out[s]) :
                /\ f_out[s][j].id \in 1..Len(f_cards)
                /\ f_out[s][j] = f_cards[f_out[s][j].id]
          /\ \A j, k \in 1..Len(f_out[s]) :
                j < k => f_out[s][j].id < f_out[s][k].id
    /\ \A s, r \in DOMAIN f_out : \A j \in 1..Len(f_out[s]) :
          \A k \in 1..Len(f_out[r]) :
              f_out[s][j].id = f_out[r][k].id => s = r
    /\ DOMAIN f_out = Statuses
          => \A i \in 1..Len(f_cards) :
                \E s \in Statuses : \E j \in 1..Len(f_out[s]) :
                    f_out[s][j].id = i

\* all four filters applied to three cards; two results hold cards, one of
\* them two cards that are not neighbours in the input
C17_Witness ==
    /\ DOMAIN f_out = Statuses
    /\ Len(f_cards) = 3
    /\ Len(f_out["New"]) = 2
    /\ f_out["New"][1].id = 1 /\ f_out["New"][2].id = 3
    /\ Len(f_out["Lapsed"]) = 1

\* C18: the queue review_cmd and due_cards build holds only non-suspended
\* cards of the selected deck (of any deck when none is selected) whose
\* status at now is DueToday, or New when New is requested, or Lapsed when
\* Lapsed is requested, so never a suspended or a Future card; it holds each
\* card at most once and is in ascending order of (due_at, created_at);
\* without a max it holds all of these cards, with a max the first max of
\* them in that order.
C18_QueuePolicy ==
    (DOMAIN q_out /= {} /\ q_out.by \in {"cli", "http"} /\ ~q_out.err) =>
        LET q == q_out.queue
            wanted == {"DueToday"}
                      \cup (IF q_out.include_new THEN {"New"} ELSE {})
                      \cup (IF q_out.include_lapsed THEN {"Lapsed"} ELSE {})
            E == {i \in DOMAIN q_cards :
                    /\ ~q_cards[i].suspended
                    /\ q_out.deck = <<>> \/ q_out.deck = <<q_cards[i].deck_id>>
                    /\ due_status(q_cards[i], q_now) \in wanted}
            before(a, b) ==
                \/ Before(a.due_at, b.due_at)
                \/ a.due_at = b.due_at /\ Before(a.created_at, b.created_at)
            inq == {q[j].id : j \in 1..Len(q)}
        IN /\ \A j \in 1..Len(q) :
                /\ q[j].id \in E
                /\ q[j] = q_cards[q[j].id]
                /\ ~q[j].suspended
                /\ due_status(q[j], q_now) /= "Future"
           /\ \A j, k \in 1..Len(q) : j < k =>
                /\ q[j].id /= q[k].id
                /\ ~before(q[k], q[j])
           /\ q_out.max = <<>> => inq = E
           /\ q_out.max /= <<>> =>
                /\ Len(q) = IF q_out.max[1] < Cardinality(E)
                            THEN q_out.max[1] ELSE Cardinality(E)
                /\ \A i \in E \ inq : \A j \in 1..Len(q) :
                      ~before(q_cards[i], q[j])

\* due_cards asked for the New cards too and for one card at most, with a
\* New card and a DueToday card stored: it answers with the one that is due
\* earlier
C18_Witness ==
    /\ DOMAIN q_out /= {}
    /\ q_out.by = "http" /\ ~q_out.err
    /\ q_out.include_new /\ ~q_out.include_lapsed
    /\ q_out.max = <<1>> /\ q_out.deck = <<>>
    /\ DOMAIN q_cards = 1..2
    /\ ~q_cards[1].suspended /\ ~q_cards[2].suspended
    /\ due_status(q_cards[1], q_now) = "DueToday"
    /\ due_status(q_cards[2], q_now) = "New"
    /\ Before(q_cards[2].due_at, q_cards[1].due_at)
    /\ q_out.queue = <<q_cards[2]>>

\* C19: for the same stored cards, deck and now, with New and Lapsed
\* included and no effective max, build_queue, review_cmd and due_cards
\* produce the same sequence of cards (here even with list_cards handing
\* each of them the cards in the same order).
C19_SameQueue ==
    (DOMAIN q_out /= {} /\ q_out.by = "tui") =>
        /\ q_out.queue = review_cmd(q_cards, q_out.order, q_out.deck, TRUE,
                                    TRUE, Cardinality(DOMAIN q_cards), q_now)
        /\ q_out.queue = due_cards(q_cards, q_out.order, q_out.deck,
                                   Some(TRUE), Some(TRUE), None, q_now)

\* C20: create_deck fails with Conflict, and adds no deck, when the map
\* holds a deck whose name equals the given name ignoring case; after every
\* call, under any interleaving of concurrent calls, no two decks of
\* MemoryRepo have names that are equal ignoring case.
C20_UniqueNames ==
    [][\A p \in Procs : (m_pc[p] = "lock" /\ m_pc'[p] = "idle") =>
          LET fold(n) == CASE n = "A" -> "a"
                           [] n = "U+00C9" -> "U+00E9"
                           [] OTHER -> n
              given == m_op[p][1].name
          IN /\ (\E d \in DOMAIN m_decks : fold(m_decks[d].name) = fold(given))
                   => /\ m_res'[p][Len(m_res'[p])].result = "Conflict"
                      /\ m_decks' = m_decks
             /\ \A d, e \in DOMAIN m_decks' :
                   d /= e => fold(m_decks'[d].name) /= fold(m_decks'[e].name)
      ]_vars

\* C21: with no other operation running, delete_deck(id) of an absent id
\* returns NotFound and changes nothing; otherwise it removes the deck, the
\* cards of the deck and the reviews of these cards, and leaves every other
\* deck, card and review list as it was; when it returns success get_deck(id)
\* is NotFound, list_cards(id) is empty, and get_card is NotFound and
\* list_reviews_for_card empty for every card that belonged to the deck.
C21_DeleteCascade ==
    [][\A id \in DeckIds :
         /\ (DeleteDeck(1, id) /\ id \notin DOMAIN decks) =>
               /\ res'[1] = "NotFound"
               /\ decks' = decks /\ cards' = cards /\ reviews' = reviews
         /\ (DeleteDeck(1, id) /\ id \in DOMAIN decks) =>
               LET gone == {c \in DOMAIN cards : cards[c].deck_id = id}
               IN /\ ~get_deck(decks', id).ok
                  /\ \A s \in Seeds : list_cards(cards', s, <<id>>) = <<>>
                  /\ \A c \in gone :
                        /\ ~get_card(cards', c).ok
                        /\ list_reviews_for_card(reviews', c) = <<>>
                  /\ \A d \in DeckIds \ {id} :
                        get_deck(decks', d) = get_deck(decks, d)
                  /\ \A c \in CardIds \ gone :
                        /\ get_card(cards', c) = get_card(cards, c)
                        /\ list_reviews_for_card(reviews', c)
                              = list_reviews_for_card(reviews, c)
         /\ (op[1].kind = "delete_deck" /\ op[1].id = id) =>
               /\ decks' = decks /\ cards' = cards /\ reviews' = reviews
               /\ Return(1) =>
                     /\ res'[1] = "ok"
                     /\ ~get_deck(decks', id).ok
                     /\ \A s \in Seeds : list_cards(cards', s, <<id>>) = <<>>
      ]_vars

\* delete_deck has returned success for a deck that held a card with a
\* review, and the other deck is still there
C21_Witness ==
    /\ status = "open"
    /\ res[1] = "ok" /\ pc[1] = "idle"
    /\ nops = 5
    /\ nextDeck = 3 /\ nextCard = 2 /\ nextReview = 2
    /\ Cardinality(DOMAIN decks) = 1
    /\ cards = EmptyMap
    /\ reviews = EmptyMap

\* C22: add_card returns NotFound and inserts nothing when the deck does not
\* exist, and whenever JsonStore::add_card inserts a card into the index the
\* index holds a deck with the card's deck_id, also with delete_deck running
\* concurrently.
C22_DeckAtInsert ==
    [][\A p \in Procs :
         /\ \A id \in DeckIds : (AddCard(p, id) /\ id \notin DOMAIN decks) =>
               /\ res'[p] = "NotFound"
               /\ cards' = cards
         /\ AddCardInsert(p) =>
               /\ op[p].deck \in DOMAIN decks
               /\ cards'[op[p].id].deck_id \in DOMAIN decks'
      ]_vars

\* C23: delete_deck of MemoryRepo takes effect at one instant for the other
\* operations: get_card and list_cards return no card whose deck is absent,
\* list_reviews_for_card returns no review of such a card, add_card inserts
\* no card into an absent deck, and when no call is running no card
\* references an absent deck.
C23_Linearizable ==
    [][\A p \in Procs :
         /\ \A id \in MemCardArgs :
               (MemGetCard(p, id) /\ id \in DOMAIN m_cards) =>
                   m_cards[id].deck_id \in DOMAIN m_decks
         /\ \A d \in MemDeckIds, seed \in Seeds :
               (MemListCards(p, d, seed) /\ d \notin DOMAIN m_decks) =>
                   \A c \in DOMAIN m_cards : m_cards[c].deck_id /= d
         /\ \A c \in MemCardArgs :
               (MemListReviews(p, c) /\ c \in DOMAIN m_cards
                  /\ list_reviews_for_card(m_reviews, c) /= <<>>) =>
                   m_cards[c].deck_id \in DOMAIN m_decks
         /\ MemAddCardInsert(p) => m_op[p][1].deck_id \in DOMAIN m_decks
         /\ (\A q \in Procs : m_pc'[q] = "idle") =>
               \A c \in DOMAIN m_cards' :
                   m_cards'[c].deck_id \in DOMAIN m_decks'
      ]_vars

\* C24: delete_card(id) of an absent card returns NotFound and changes
\* nothing; otherwise it removes the card and all of its reviews and leaves
\* every deck, every other card and every other card's reviews as they
\* were; when it returns success get_card(id) is NotFound and
\* list_reviews_for_card(id) is empty.
C24_DeleteCard ==
    [][\A id \in CardIds :
         /\ (DeleteCard(1, id) /\ id \notin DOMAIN cards) =>
               /\ res'[1] = "NotFound"
               /\ decks' = decks /\ cards' = cards /\ reviews' = reviews
         /\ (DeleteCard(1, id) /\ id \in DOMAIN cards) =>
               /\ ~get_card(cards', id).ok
               /\ list_reviews_for_card(reviews', id) = <<>>
               /\ decks' = decks
               /\ \A c \in CardIds \ {id} :
                     /\ get_card(cards', c) = get_card(cards, c)
                     /\ list_reviews_for_card(reviews', c)
                           = list_reviews_for_card(reviews, c)
         /\ (op[1].kind = "delete_card" /\ op[1].id = id) =>
               /\ decks' = decks /\ cards' = cards /\ reviews' = reviews
               /\ Return(1) =>
                     /\ res'[1] = "ok"
                     /\ ~get_card(cards', id).ok
                     /\ list_reviews_for_card(reviews', id) = <<>>
      ]_vars

\* delete_card has returned success for a card that had a review; its deck
\* is still there
C24_Witness ==
    /\ status = "open"
    /\ res[1] = "ok" /\ pc[1] = "idle"
    /\ nextDeck = 2 /\ nextCard = 2 /\ nextReview = 2
    /\ Cardinality(DOMAIN decks) = 1
    /\ cards = EmptyMap
    /\ reviews = EmptyMap

\* C25: update_card(card) of a card whose id is stored replaces the stored
\* record with the given one, every field of it, and changes no other card,
\* no deck and no review; for an id that is not stored it returns NotFound
\* and stores nothing.
C25_UpdateCard ==
    [][\A card \in CardInputs :
         /\ (UpdateCard(1, card) /\ card.id \in DOMAIN cards) =>
               /\ get_card(cards', card.id) = Ok(card)
               /\ \A c \in CardIds \ {card.id} :
                     get_card(cards', c) = get_card(cards, c)
               /\ decks' = decks /\ reviews' = reviews
         /\ (UpdateCard(1, card) /\ card.id \notin DOMAIN cards) =>
               /\ res'[1] = "NotFound"
               /\ ~get_card(cards', card.id).ok
               /\ decks' = decks /\ cards' = cards /\ reviews' = reviews
         /\ (op[1].kind = "update_card" /\ op[1].id = card.id) =>
               /\ decks' = decks /\ cards' = cards /\ reviews' = reviews
               /\ Return(1) => res'[1] = "ok" /\ get_card(cards', card.id).ok
      ]_vars

\* update_card has returned success for a card that was added to deck 1 and
\* is now stored with the caller's deck 2, suspended flag and version
C25_Witness ==
    /\ status = "open"
    /\ res[1] = "ok" /\ pc[1] = "idle"
    /\ nextCard = 2
    /\ get_card(cards, 1) =
          Ok([id |-> 1, deck_id |-> 2, suspended |-> TRUE, ver |-> MaxVer])

\* The cascade, delete_card and update_card of MemoryRepo, one caller
\* (SpecMemOps).
\* delete_deck (memory.rs 43-59): NotFound and no change for an absent deck;
\* each turn of its loop removes a card of the deck together with the
\* card's reviews and nothing else; at its successful return the deck and
\* all of its cards are gone.
C21_MemDeleteDeck ==
    [][\A id \in MemDeckIds :
         /\ (MemDeleteDeck(1, id) /\ id \notin DOMAIN m_decks) =>
               /\ m_res'[1][Len(m_res'[1])].result = Err("NotFound")
               /\ m_pc'[1] = "idle"
               /\ UNCHANGED <<m_decks, m_cards, m_reviews>>
         /\ (m_op[1] # <<>> /\ m_op[1][1].kind = "delete_deck"
                /\ m_op[1][1].id = id) =>
               /\ m_decks' = m_decks
               /\ \A c \in MemCardArgs :
                     IF c \in DOMAIN m_cards /\ c \notin DOMAIN m_cards'
                     THEN /\ m_cards[c].deck_id = id
                          /\ list_reviews_for_card(m_reviews', c) = <<>>
                     ELSE /\ get_card(m_cards', c) = get_card(m_cards, c)
                          /\ list_reviews_for_card(m_reviews', c)
                                = list_reviews_for_card(m_reviews, c)
               /\ m_pc'[1] = "idle" =>
                     /\ m_res'[1][Len(m_res'[1])].result = Ok(<<>>)
                     /\ ~get_deck(m_decks', id).ok
                     /\ \A s \in Seeds :
                           list_cards(m_cards', s, Some(id)) = <<>>
      ]_vars

\* delete_card (memory.rs 105-112)
C24_MemDeleteCard ==
    [][\A id \in MemCardArgs :
         /\ (MemDeleteCard(1, id) /\ id \notin DOMAIN m_cards) =>
               /\ m_res'[1][Len(m_res'[1])].result = Err("NotFound")
               /\ m_pc'[1] = "idle"
               /\ UNCHANGED <<m_decks, m_cards, m_reviews>>
         /\ (MemDeleteCard(1, id) /\ id \in DOMAIN m_cards) =>
               m_pc'[1] = "dc_reviews"
         /\ (m_pc[1] = "dc_reviews" /\ m_op[1][1].id = id) =>
               /\ m_res'[1][Len(m_res'[1])].result = Ok(<<>>)
               /\ m_pc'[1] = "idle"
               /\ ~get_card(m_cards', id).ok
               /\ list_reviews_for_card(m_reviews', id) = <<>>
               /\ m_decks' = m_decks
               /\ \A c \in MemCardArgs \ {id} :
                     /\ get_card(m_cards', c) = get_card(m_cards, c)
                     /\ list_reviews_for_card(m_reviews', c)
                           = list_reviews_for_card(m_reviews, c)
      ]_vars

\* update_card (memory.rs 96-103)
C25_MemUpdateCard ==
    [][\A card \in MemCardInputs :
         MemUpdateCard(1, card) =>
            /\ UNCHANGED <<m_decks, m_reviews>>
            /\ \A c \in MemCardArgs \ {card.id} :
                  get_card(m_cards', c) = get_card(m_cards, c)
            /\ IF card.id \in DOMAIN m_cards
               THEN /\ get_card(m_cards', card.id) = Ok(card)
                    /\ m_res'[1][Len(m_res'[1])].result = Ok(card)
               ELSE /\ ~get_card(m_cards', card.id).ok
                    /\ m_res'[1][Len(m_res'[1])].result = Err("NotFound")
      ]_vars

C26_Ascending(s) ==
    \A i, j \in 1..Len(s) : i < j => s[i].reviewed_at <= s[j].reviewed_at

\* C26: every list_reviews_for_card call succeeds and returns the reviews
\* of the card in ascending order of reviewed_at, whatever the order of the
\* insert_review calls before it (for a card without reviews: the empty
\* sequence).
C26_ReviewsOrdered ==
    \A p \in Procs : \A i \in 1..Len(m_res[p]) :
        m_res[p][i].kind = "list_reviews_for_card" =>
            /\ m_res[p][i].result.ok
            /\ C26_Ascending(m_res[p][i].result.value)

\* the reviews of an index whose card is not stored
C27_Orphans(rs, cs) ==
    {r \in UNION {{rs[c][i] : i \in 1..Len(rs[c])} : c \in DOMAIN rs} :
        r.card_id \notin DOMAIN cs}

C27_InImage(r, img) == \E j \in 1..Len(img.reviews) : img.reviews[j] = r

\* C27: insert_review checks nothing against the cards: a review whose
\* card_id names no stored card is accepted, appended to the list that
\* list_reviews_for_card returns for that id, written into the snapshot of
\* the save that follows and into the primary file, and the call returns
\* success.
C27_OrphanReviews ==
    [][/\ \A id \in CardIds :
            (InsertReview(1, id) /\ id \notin DOMAIN cards) =>
               /\ pc'[1] = "save"
               /\ cards' = cards
               /\ list_reviews_for_card(reviews', id) =
                     Append(list_reviews_for_card(reviews, id),
                            [id |-> nextReview, card_id |-> id])
               /\ [id |-> nextReview, card_id |-> id]
                     \in C27_Orphans(reviews', cards')
       /\ SaveSnapshot(1) =>
             \A r \in C27_Orphans(reviews, cards) :
                 C27_InImage(r, snapshot'[1])
       /\ (PersistPrimary(1) /\ op[1].kind = "insert_review") =>
             \A r \in C27_Orphans(reviews, cards) :
                 C27_InImage(r, primary'.img)
       /\ (Return(1) /\ op[1].kind = "insert_review") =>
             /\ res'[1] = "ok"
             /\ reviews' = reviews
      ]_vars

\* the same for MemoryRepo (memory.rs 123-136): the review of a card that is
\* not stored is accepted and list_reviews_for_card returns it
C27_MemInsertReview ==
    [][\A id \in MemCardArgs, t \in ReviewTimes :
         (MemInsertReview(1, MemReview(id, t)) /\ id \notin DOMAIN m_cards) =>
            /\ m_res'[1][Len(m_res'[1])].result = Ok(<<>>)
            /\ m_cards' = m_cards
            /\ list_reviews_for_card(m_reviews', id) =
                  Append(list_reviews_for_card(m_reviews, id),
                         MemReview(id, t))
      ]_vars

\* insert_review has returned success for card id 1 in a store where no card
\* was ever added; the review is in the index and in the primary file
C27_Witness ==
    /\ status = "open"
    /\ res[1] = "ok" /\ pc[1] = "idle"
    /\ nextCard = 1 /\ nextReview = 2
    /\ list_reviews_for_card(reviews, 1) = <<[id |-> 1, card_id |-> 1]>>
    /\ primary.kind = "image"
    /\ C27_InImage([id |-> 1, card_id |-> 1], primary.img)

C28_IsPrefix(s, t) == Len(s) <= Len(t) /\ SubSeq(t, 1, Len(s)) = s

\* C28: reviews are append-only. In every step of an open store the review
\* list of each card id before the step is a prefix of its list after the
\* step, unless the step is delete_card of that stored card or delete_deck
\* of its deck. (Prefix is transitive, so the list at any earlier time is a
\* prefix of the list at any later time with no such deletion in between.)
C28_AppendOnly ==
    [][(status = "open" /\ status' = "open") =>
          \A c \in CardIds :
             \/ C28_IsPrefix(list_reviews_for_card(reviews, c),
                             list_reviews_for_card(reviews', c))
             \/ /\ c \in DOMAIN cards
                /\ DeleteCard(1, c) \/ DeleteDeck(1, cards[c].deck_id)
      ]_vars

\* a card's list has grown to two reviews, in the order of their insertion
C28_Witness ==
    /\ status = "open"
    /\ pc[1] = "idle" /\ res[1] = "ok"
    /\ \E c \in CardIds :
          list_reviews_for_card(reviews, c) =
             <<[id |-> 1, card_id |-> c], [id |-> 2, card_id |-> c]>>

\* the review r is in the list
C29_Holds(list, r) == \E i \in 1..Len(list) : list[i] = r

\* C29: when, in POST /review, update_card has succeeded and insert_review
\* fails, the stored card is the graded card (new reps, interval_days, ef
\* and due_at), the repository holds no review for that grade, and the
\* response is not a success.
C29_PartialFailure ==
    [][\A io \in IoOutcomes :
         (/\ ApiPostReviewInsert(io)
          /\ a_log'[Len(a_log')].site = "insert_review") =>
            /\ get_card(a_cards', a_req[1].updated_card.id)
                  = Ok(a_req[1].updated_card)
            /\ ~C29_Holds(list_reviews_for_card(a_reviews',
                                                a_req[1].review.card_id),
                          a_req[1].review)
            /\ a_log'[Len(a_log')].status = INTERNAL_SERVER_ERROR
      ]_vars

\* errors.rs lines 3-13
CoreErrorKinds == {"NotFound", "Invalid", "Conflict", "Storage"}

\* C30: two requests to the same handler that failed with Repository errors
\* of different kinds were answered with different HTTP statuses.
C30_DistinctStatus ==
    \A i, j \in 1..Len(a_log) :
        (/\ a_log[i].handler = a_log[j].handler
         /\ a_log[i].err \in CoreErrorKinds
         /\ a_log[j].err \in CoreErrorKinds
         /\ a_log[i].err # a_log[j].err) =>
            a_log[i].status # a_log[j].status

\* C31: when a mutating operation of JsonStore (here update_card, called by
\* POST /review) returns a Storage error because the snapshot write failed,
\* the in-memory index is the same as before the operation.
C31_FailedSaveNoChange ==
    [][\A io \in IoOutcomes :
         (/\ ApiPostReviewUpdate(io)
          /\ a_store = "json"
          /\ ~repo_update_card(a_store, ApiRepo, a_req[1].updated_card,
                               io).result.ok
          /\ repo_update_card(a_store, ApiRepo, a_req[1].updated_card,
                              io).result.err = "Storage") =>
            /\ a_cards' = a_cards
            /\ a_reviews' = a_reviews
      ]_vars

\* the card after the grade of request p and then the grade of request q,
\* each at the time of its own handler
GradedInOrder(c, p, q) ==
    apply_grade(apply_grade(c, c_req[p][1].grade, c_req[p][1].at).updated_card,
                c_req[q][1].grade, c_req[q][1].at).updated_card

\* C32: when two concurrent POST /review requests for one card both return
\* success, the stored card is the result of applying both grades in some
\* order and exactly two reviews are stored for it.
C32_OneAfterTheOther ==
    \A p, q \in Procs :
        (/\ p # q
         /\ c_res[p] = NO_CONTENT
         /\ c_res[q] = NO_CONTENT
         /\ c_req[p][1].card_id = c_req[q][1].card_id) =>
            LET id == c_req[p][1].card_id
            IN /\ \/ a_cards[id] = GradedInOrder(ApiCard(id), p, q)
                  \/ a_cards[id] = GradedInOrder(ApiCard(id), q, p)
               /\ Len(list_reviews_for_card(a_reviews, id)) = 2

\* C33: in the grade action of the terminal front-end insert_review is called
\* for a grade only after update_card for that grade has returned success: a
\* grade whose card update failed stores no review.
C33_ReviewAfterUpdate ==
    [][\A grade \in Grades, io_update, io_insert \in IoOutcomes :
         (/\ TuiGrade(grade, io_update, io_insert)
          /\ Len(t_hist') = Len(t_hist) + 1
          /\ t_hist'[Len(t_hist')].update_card # "ok") =>
            a_reviews' = a_reviews
      ]_vars

\* the same for POST /review: update_card failed, nothing is pushed
C33_Http ==
    [][\A io \in IoOutcomes :
         (/\ ApiPostReviewUpdate(io)
          /\ ~repo_update_card(a_store, ApiRepo, a_req[1].updated_card,
                               io).result.ok) =>
            (a_pc' = "idle" /\ a_reviews' = a_reviews)
      ]_vars

\* C35: an operation of JsonStore that returns NotFound or Conflict, and
\* every reading operation, leaves the index, the primary file and the
\* backups directory as they were.
C35_NoEffect ==
    [][(\/ nops' = nops + 1 /\ res'[1] \in {"NotFound", "Conflict"}
        \/ Read(1)) =>
          UNCHANGED <<decks, cards, reviews, primary, backups, dirs>>
      ]_vars

\* a call has returned NotFound or Conflict on a store that holds a card and
\* a review and has written its file
C35_Witness ==
    /\ res[1] \in {"NotFound", "Conflict"}
    /\ cards # EmptyMap
    /\ reviews # EmptyMap
    /\ primary # MissingFile

\* the fields of a card that are not its scheduling fields
KeptFields == {"id", "deck_id", "front", "back", "hint", "tags", "suspended",
               "created_at"}
SchedulingFields == {"reps", "interval_days", "ef", "due_at", "last_grade",
                     "last_reviewed_at"}

\* C36: apply_grade changes only the scheduling fields of a card: id,
\* deck_id, front, back, hint, tags, suspended and created_at of the updated
\* card are those of the input card; set_suspended changes only the
\* suspended field of the card, and no other card.
C36_OnlyItsFields ==
    [][/\ \A id \in ApiCardIds, grade \in Grades :
            FieldsGrade(id, grade) =>
              /\ DOMAIN a_cards'[id] = KeptFields \cup SchedulingFields
              /\ \A f \in KeptFields : a_cards'[id][f] = a_cards[id][f]
              /\ a_req'[1].updated_card = a_cards'[id]
       /\ \A id \in ApiCardIds, suspended \in BOOLEAN, io \in IoOutcomes :
            FieldsSetSuspended(id, suspended, io) =>
              /\ DOMAIN a_cards' = DOMAIN a_cards
              /\ \A i \in DOMAIN a_cards :
                   \A f \in DOMAIN a_cards[i] :
                      (i # id \/ f # "suspended") =>
                          a_cards'[i][f] = a_cards[i][f]
      ]_vars

\* a suspended card with a hint and tags has been graded, and after that a
\* card has been unsuspended
C36_Witness ==
    /\ Len(a_log) >= 2
    /\ a_log[1].handler = "grade"
    /\ a_log[Len(a_log)].handler = "set_suspended"
    /\ a_log[Len(a_log)].err = "ok"
    /\ 1 \in DOMAIN a_cards
    /\ a_cards[1].reps > 0
    /\ a_cards[1].hint # None
    /\ a_cards[1].tags # <<>>
    /\ ~a_cards[1].suspended
    /\ a_req # <<>>
    /\ a_req[1].updated_card.suspended

\* C37: under any interleaving of concurrent operations on one MemoryRepo
\* every operation that was invoked returns: no caller waits forever for one
\* of the locks.
C37_EveryCallReturns ==
    \A p \in Procs : (m_pc[p] # "idle") ~> (m_pc[p] = "idle")

\* the same for concurrent callers of one JsonStore (SpecRaceFair)
C37_JsonReturns ==
    \A p \in Procs : (pc[p] # "idle") ~> (pc[p] = "idle")

\* delete_deck holds cards and is about to take reviews while the other
\* caller is inside an operation that takes reviews
C37_Witness ==
    \E p, q \in Procs :
        /\ p # q
        /\ m_pc[p] = "dd_loop"
        /\ m_op[p][1].ids # {}
        /\ m_lock["cards"] = p
        /\ m_pc[q] \in {"ir_reviews", "dc_reviews"}

\* a review of the list is on day d
ReviewOn(d) ==
    \E i \in 1..Len(s_reviews) : s_reviews[i].reviewed_at.day = d

\* C38: daily_streak(reviews, today) returns the length of the longest run of
\* consecutive days ending at today on each of which a review exists: 0 when
\* there is no review on today, at least 1 when there is one.
C38_LongestRun ==
    (s_out # <<>> /\ s_out[1].fn = "daily_streak") =>
        LET n == s_out[1].streak
        IN /\ ~s_out[1].panics
           /\ n \in 0..Len(s_reviews)
           /\ \A k \in 0..(n - 1) : ReviewOn(s_today - k)
           /\ ~ReviewOn(s_today - n)
           /\ ReviewOn(s_today) <=> n >= 1

\* a streak of two days was counted from three reviews
C38_Witness ==
    /\ s_out # <<>>
    /\ s_out[1].fn = "daily_streak"
    /\ s_out[1].streak = 2
    /\ Len(s_reviews) = 3
    /\ s_reviews[1].reviewed_at.day = s_today

\* the reviews of the list with grade g
WithGrade(g) == {i \in 1..Len(s_reviews) : s_reviews[i].grade = g}

\* the sum of field f of the per-day totals over the days in ds
RECURSIVE SumOver(_, _, _)
SumOver(per_day, ds, f) ==
    IF ds = {} THEN 0
    ELSE LET d == CHOOSE x \in ds : TRUE
         IN per_day[d][f] + SumOver(per_day, ds \ {d}, f)

\* C39: summarize counts every review once: totals.total is the number of
\* reviews and hard + medium + easy, the per-day totals sum to the totals in
\* every field, and accuracy is (medium + easy) / total, 0 for the empty
\* list and more than 0 when a review is Medium or Easy.
C39_CountsOnce ==
    (s_out # <<>> /\ s_out[1].fn = "summarize") =>
        LET t == s_out[1].summary.totals
            per_day == s_out[1].summary.per_day
            acc == s_out[1].accuracy
        IN /\ t.total = Len(s_reviews)
           /\ t.total = t.hard + t.medium + t.easy
           /\ t.hard = Cardinality(WithGrade("Hard"))
           /\ t.medium = Cardinality(WithGrade("Medium"))
           /\ t.easy = Cardinality(WithGrade("Easy"))
           /\ \A f \in {"total", "hard", "medium", "easy"} :
                 SumOver(per_day, DOMAIN per_day, f) = t[f]
           /\ \A d \in DOMAIN per_day : ReviewOn(d)
           /\ acc.num * t.total = (t.medium + t.easy) * acc.den
           /\ acc.den > 0
           /\ s_reviews = <<>> => acc.num = 0
           /\ (t.medium + t.easy > 0) => acc.num > 0

\* three reviews on two days, one of them Hard, were summarized
C39_Witness ==
    /\ s_out # <<>>
    /\ s_out[1].fn = "summarize"
    /\ s_out[1].summary.totals.total = 3
    /\ s_out[1].summary.totals.hard = 1
    /\ Cardinality(DOMAIN s_out[1].summary.per_day) = 2

\* C40: whenever in_review is true the cursor idx points at a card of the
\* queue (idx < queue length), also when the queue was built empty.
C40_CursorOnCard == t_in_review => t_idx < Len(t_queue)

\* each queue position is graded at most once per session
C40_GradedOnce ==
    \A i, j \in 1..Len(t_hist) :
        (t_hist[i].session = t_hist[j].session
         /\ t_hist[i].pos = t_hist[j].pos) => i = j

\* with an empty queue no event ends the review: in_review stays true until
\* mainloop returns
C40_EmptyQueueStays ==
    [][(t_in_review /\ t_queue = <<>>) => (t_in_review' /\ t_queue' = <<>>)
      ]_vars

\* the instants from the last grade of card c on: before its due_at, at it,
\* and a day and more after it
LaterTimes(c) ==
    {Instant(d, k) : d \in c.last_reviewed_at.day
                           ..(c.last_reviewed_at.day + MaxLaterDays),
                     k \in 0..MaxTick}

\* C34: a stored card whose last grade is Hard has reps = 0, is classified
\* New at every later time, also after its due_at, and is in no review queue
\* that due_cards builds without include_new.
C34_HardStaysNew ==
    \A id \in DOMAIN a_cards :
        LET c == a_cards[id]
        IN c.last_grade = "Hard" =>
            /\ c.reps = 0
            /\ \A t \in LaterTimes(c) :
                 /\ due_status(c, t) = "New"
                 /\ \A include_new \in {None, Some(FALSE)},
                       include_lapsed \in {None, Some(FALSE), Some(TRUE)} :
                       LET queue == due_cards(a_cards, 0, None, include_new,
                                              include_lapsed, None, t)
                       IN \A i \in 1..Len(queue) : queue[i].id # id

\* card 1 was graded Hard, and a later GET /due without include_new, served
\* when its due_at had passed, answered with an empty queue
C34_Witness ==
    /\ Len(a_log) >= 2
    /\ a_log[Len(a_log)].handler = "due_cards"
    /\ a_log[Len(a_log)].status = OK
    /\ a_resp = <<>>
    /\ 1 \in DOMAIN a_cards
    /\ a_cards[1].last_grade = "Hard"
    /\ ~a_cards[1].suspended
    /\ Before(a_cards[1].due_at, Instant(Len(a_log), 0))

====
